---- MODULE Spec2Model ----
(***************************************************************************)
(* Model of scripts/seed-scale.py: the vocabulary validator, the entity    *)
(* population engine (copies, status partition, loans, holds), the         *)
(* wall-clock dependent timestamps, and the generated load script run by   *)
(* psql against the datastore.                                             *)
(*                                                                         *)
(* Specifications:                                                         *)
(*   SpecAcyclic   assert_acyclic applied to bounded lists of edges        *)
(*   SpecVariants  assert_unique_preferred / assert_variant_mapping        *)
(*   Spec          one run of main(): copies .. holds                      *)
(*   SpecClock     two runs of main() with the same seed, own clocks       *)
(*   SpecLoad      load.sql executed by psql, several times in a row       *)
(***************************************************************************)
EXTENDS Integers, Sequences, FiniteSets, TLC

VARIABLES
    \* validate_rules_vocab
    vpc,            \* "input" | "done"
    vocab,          \* the vocabulary tables under validation
    verdict,        \* result of the validation helper
    \* main(): generation
    pc,             \* position of main()
    cfg,            \* ScaleConfig
    users,          \* users list
    items,          \* items list
    parts,          \* the index sets of the status partition
    loans,          \* loans list
    holds,          \* holds list
    active_hold_keys,
    \* main(): around the generation
    env,            \* the SCALE_* settings of the process environment
    workdir,        \* names of the files in cfg.workdir
    written,        \* names of the files this run wrote
    issued,         \* the psql invocations of this run, oldest first
    diag,           \* the message the run ended with, "" for none
    rng,            \* "none" | "seeded" | "drawn"
    inventory_sessions_rows,
    inventory_scans_rows,
    audit_rows,
    \* main(): records' labels, authority terms and their relations
    bibs,
    bib_term_rows,
    authority_sets,
    authority_terms,
    authority_relations,
    \* wall clock and the two compared runs
    clock,
    runs,
    draws,
    \* datastore and psql
    db,             \* committed rows
    txn,            \* the open transaction and the rows it sees
    psql,           \* the running psql process
    loadLog         \* the psql runs that ended, oldest first

vocabVars == <<vpc, vocab, verdict>>
mainVars  == <<env, workdir, written, issued, diag, rng>>
tailVars  == <<inventory_sessions_rows, inventory_scans_rows, audit_rows>>
termVars  == <<bibs, bib_term_rows, authority_sets, authority_terms, authority_relations>>
genVars   == <<pc, cfg, users, items, parts, loans, holds, active_hold_keys, mainVars, tailVars,
               termVars>>
clockVars == <<clock, runs, draws>>
loadVars  == <<db, txn, psql, loadLog>>
vars      == <<vocabVars, genVars, clockVars, loadVars>>

None == "None"

(***************************************************************************)
(* Sequence helpers                                                        *)
(***************************************************************************)
Range(s) == {s[i] : i \in 1..Len(s)}

SeqsUpTo(S, n) == UNION {[1..k -> S] : k \in 0..n}

Max(a, b) == IF a >= b THEN a ELSE b

Min(a, b) == IF a <= b THEN a ELSE b

(***************************************************************************)
(* Parts of the model that a specification does not use stay idle.         *)
(***************************************************************************)
VocabIdle == /\ vpc = "idle"
             /\ vocab = None
             /\ verdict = None

NoParts == [idx_all |-> <<>>, lost_idx |-> {}, repair_idx |-> {}, withdrawn_idx |-> {},
            open_loan_idx |-> {}, ready_hold_idx |-> {}]

NoConfig == [students |-> 0, teachers |-> 0, bibs |-> 0, max_copies_per_bib |-> 1,
             open_loans |-> 0, closed_loans |-> 0, ready_holds |-> 0, queued_holds |-> 0,
             inventory_sessions |-> 0, scans_per_session |-> 0, audit_events |-> 0,
             org_code |-> <<>>, text_provider |-> "rules"]

MainIdle == /\ env = NoConfig
            /\ workdir = {}
            /\ written = {}
            /\ issued = <<>>
            /\ diag = ""
            /\ rng = "none"

TailIdle == /\ inventory_sessions_rows = <<>>
            /\ inventory_scans_rows = <<>>
            /\ audit_rows = <<>>

NoLinks == [subject |-> <<>>, name |-> <<>>, geographic |-> <<>>, genre |-> <<>>]

NoLabels == [subject |-> {}, name |-> {}, geographic |-> {}, genre |-> {}]

TermIdle == /\ bibs = <<>>
            /\ bib_term_rows = NoLinks
            /\ authority_sets = NoLabels
            /\ authority_terms = <<>>
            /\ authority_relations = <<>>

GenIdle == /\ pc = "idle"
           /\ cfg = NoConfig
           /\ users = <<>>
           /\ items = <<>>
           /\ parts = NoParts
           /\ loans = <<>>
           /\ holds = <<>>
           /\ active_hold_keys = {}
           /\ MainIdle /\ TailIdle /\ TermIdle

ClockIdle == /\ clock = 0
             /\ runs = <<>>
             /\ draws = <<>>

NoTxn == [open |-> FALSE, rows |-> {}]

NoPsql == [phase |-> "none", pc |-> 0, app |-> <<>>, exit |-> "none", before |-> {},
           ver |-> 0, faulted |-> FALSE]

LoadIdle == /\ db = {}
            /\ txn = NoTxn
            /\ psql = NoPsql
            /\ loadLog = <<>>

(***************************************************************************)
(* validate_rules_vocab: labels                                            *)
(***************************************************************************)
\* Labels are short strings; a leading or trailing blank is what str.strip
\* removes.
strip(s) == CASE s = " a" -> "a"
              [] s = "x " -> "x"
              [] OTHER    -> s

Ok == [abort |-> FALSE, msg |-> "ok"]

Abort(m) == [abort |-> TRUE, msg |-> m]

\* assert_unique_preferred: the loop over labels, seen is the running set.
RECURSIVE unique_loop(_, _, _)
unique_loop(labels, i, seen) ==
    IF i > Len(labels) THEN [abort |-> FALSE, msg |-> "ok", seen |-> seen]
    ELSE LET s == strip(labels[i])
         IN IF s = "" THEN [abort |-> TRUE, msg |-> "empty preferred_label", seen |-> seen]
            ELSE IF s \in seen
                 THEN [abort |-> TRUE, msg |-> "duplicate preferred_label", seen |-> seen]
                 ELSE unique_loop(labels, i + 1, seen \cup {s})

assert_unique_preferred(labels) == unique_loop(labels, 1, {})

\* The owner test of assert_variant_mapping: a variant already recorded under
\* another preferred label.  used is the dict used_variants, as a set of
\* <<variant, owner>> pairs with one pair per variant.
owner_get(used, vv) ==
    IF \E p \in used : p[1] = vv THEN (CHOOSE p \in used : p[1] = vv)[2] ELSE None

owner_conflict_dropped(used, vv, pref) == FALSE

owner_conflict(used, vv, pref) ==
    LET owner == owner_get(used, vv)
    IN owner # None /\ owner # "" /\ owner # pref

equals_preferred_own_only(vv, pref, preferred) == vv = pref

\* The two tests "vv == pref" and "vv in preferred".
equals_preferred(vv, pref, preferred) == vv = pref \/ vv \in preferred

\* The inner loop over the variants of one preferred label.
RECURSIVE variants_loop(_, _, _, _, _)
variants_loop(pref, variants, j, preferred, used) ==
    IF j > Len(variants) THEN [abort |-> FALSE, msg |-> "ok", used |-> used]
    ELSE LET vv == strip(variants[j])
         IN IF vv = "" THEN [abort |-> TRUE, msg |-> "empty variant_label", used |-> used]
            ELSE IF equals_preferred(vv, pref, preferred)
                 THEN [abort |-> TRUE,
                       msg |-> IF vv = pref THEN "variant_label equals preferred_label"
                               ELSE "variant_label conflicts with another preferred_label",
                       used |-> used]
            ELSE IF owner_conflict(used, vv, pref)
                 THEN [abort |-> TRUE, msg |-> "variant_label used by multiple terms",
                       used |-> used]
            ELSE variants_loop(pref, variants, j + 1, preferred,
                               {p \in used : p[1] # vv} \cup {<<vv, pref>>})

\* The outer loop over mapping.items(); mapping is the dict in insertion
\* order, a sequence of <<preferred label, variants>>.
RECURSIVE mapping_loop(_, _, _, _)
mapping_loop(mapping, i, preferred, used) ==
    IF i > Len(mapping) THEN Ok
    ELSE LET pref == mapping[i][1]
             variants == mapping[i][2]
         IN IF pref \notin preferred
            THEN Abort("variants map key not in preferred_labels")
            ELSE LET r == variants_loop(pref, variants, 1, preferred, used)
                 IN IF r.abort THEN Abort(r.msg)
                    ELSE mapping_loop(mapping, i + 1, preferred, r.used)

assert_variant_mapping(preferred, mapping) == mapping_loop(mapping, 1, preferred, {})

\* The label part of one kind's validation: uniqueness, then the variants.
validate_labels(labels, mapping) ==
    LET u == assert_unique_preferred(labels)
    IN IF u.abort THEN Abort(u.msg) ELSE assert_variant_mapping(u.seen, mapping)

(***************************************************************************)
(* validate_rules_vocab: assert_acyclic                                    *)
(***************************************************************************)
\* graph.setdefault(child, []).append(parent): the keys in insertion order
\* and, for a key, its parents in insertion order.
graph_keys(edges) ==
    LET F[i \in 0..Len(edges)] ==
            IF i = 0 THEN <<>>
            ELSE IF edges[i][1] \in Range(F[i - 1]) THEN F[i - 1]
                 ELSE Append(F[i - 1], edges[i][1])
    IN F[Len(edges)]

graph_get(edges, node) ==
    LET F[i \in 0..Len(edges)] ==
            IF i = 0 THEN <<>>
            ELSE IF edges[i][1] = node THEN Append(F[i - 1], edges[i][2])
                 ELSE F[i - 1]
    IN F[Len(edges)]

dfs_leave_keep_visiting(st, node) == [st EXCEPT !.visited = @ \cup {node}]

\* visiting.remove(node); visited.add(node)
dfs_leave(st, node) ==
    [st EXCEPT !.visiting = @ \ {node}, !.visited = @ \cup {node}]

\* dfs(node, path) with the closure's sets passed along; st.cycle becomes the
\* reported path when SystemExit is raised, and nothing runs after that.
RECURSIVE dfs(_, _, _, _)
RECURSIVE dfs_each(_, _, _, _, _)
dfs(edges, node, path, st) ==
    IF st.cycle # <<>> THEN st
    ELSE IF node \in st.visiting THEN [st EXCEPT !.cycle = Append(path, node)]
    ELSE IF node \in st.visited THEN st
    ELSE LET st1 == [st EXCEPT !.visiting = @ \cup {node}]
             st2 == dfs_each(edges, graph_get(edges, node), 1, Append(path, node), st1)
         IN IF st2.cycle # <<>> THEN st2 ELSE dfs_leave(st2, node)

dfs_each(edges, nxts, k, path, st) ==
    IF k > Len(nxts) \/ st.cycle # <<>> THEN st
    ELSE dfs_each(edges, nxts, k + 1, path, dfs(edges, nxts[k], path, st))

\* for node in graph.keys(): dfs(node, [])
RECURSIVE roots_loop(_, _, _, _)
roots_loop(edges, keys, k, st) ==
    IF k > Len(keys) \/ st.cycle # <<>> THEN st
    ELSE roots_loop(edges, keys, k + 1, dfs(edges, keys[k], <<>>, st))

assert_acyclic(broader_edges) ==
    LET st == roots_loop(broader_edges, graph_keys(broader_edges), 1,
                         [visiting |-> {}, visited |-> {}, cycle |-> <<>>])
    IN [abort |-> st.cycle # <<>>, path |-> st.cycle]

(***************************************************************************)
(* validate_rules_vocab: the three kinds                                   *)
(***************************************************************************)
\* The two loops of assert_edges_exist; rel tells the related loop from the
\* broader one.
RECURSIVE edges_loop(_, _, _, _)
edges_loop(preferred, edges, i, rel) ==
    IF i > Len(edges) THEN Ok
    ELSE IF edges[i][1] \notin preferred
         THEN Abort(IF rel THEN "related edge term not found"
                    ELSE "broader edge child not found")
    ELSE IF edges[i][2] \notin preferred
         THEN Abort(IF rel THEN "related edge term not found"
                    ELSE "broader edge parent not found")
    ELSE IF edges[i][1] = edges[i][2]
         THEN Abort(IF rel THEN "related edge self-loop" ELSE "broader edge self-loop")
    ELSE edges_loop(preferred, edges, i + 1, rel)

assert_edges_exist(preferred, broader_edges, related_edges) ==
    LET b == edges_loop(preferred, broader_edges, 1, FALSE)
    IN IF b.abort THEN b ELSE edges_loop(preferred, related_edges, 1, TRUE)

\* for label in _GEOGRAPHICS: if label not in geo_pref (also for genres;
\* the subject kind has one list only).
assigned_in_all(kind, assigned, preferred) ==
    IF kind # "subject" /\ \E i \in 1..Len(assigned) : assigned[i] \notin preferred
    THEN Abort("assigned label not in the full list")
    ELSE Ok

\* The block of validate_rules_vocab for one kind, in the order of the calls.
validate_kind(kind, v) ==
    LET u == assert_unique_preferred(v.labels)
    IN IF u.abort THEN Abort(u.msg)
       ELSE LET a == assigned_in_all(kind, v.assigned, u.seen)
                m == assert_variant_mapping(u.seen, v.variants)
                e == assert_edges_exist(u.seen, v.broader_edges, v.related_edges)
                c == assert_acyclic(v.broader_edges)
            IN IF a.abort THEN a
               ELSE IF m.abort THEN m
               ELSE IF e.abort THEN e
               ELSE IF c.abort THEN Abort("broader edges contains cycle")
               ELSE Ok

Kinds == <<"subject", "geographic", "genre">>

NotValidated == [abort |-> FALSE, msg |-> "", kinds_done |-> 0]

\* validate_rules_vocab: subjects, geographics, genres; the first failing
\* check raises SystemExit and the later kinds are not looked at.
RECURSIVE validate_rules_vocab_from(_, _)
validate_rules_vocab_from(vs, k) ==
    IF k > Len(Kinds) THEN [abort |-> FALSE, msg |-> "ok", kinds_done |-> Len(Kinds)]
    ELSE LET r == validate_kind(Kinds[k], vs[Kinds[k]])
         IN IF r.abort THEN [abort |-> TRUE, msg |-> r.msg, kinds_done |-> k - 1]
            ELSE validate_rules_vocab_from(vs, k + 1)

validate_rules_vocab_subject_only(vs) ==
    LET r == validate_kind("subject", vs["subject"])
    IN [abort |-> r.abort, msg |-> r.msg, kinds_done |-> IF r.abort THEN 0 ELSE 1]

validate_rules_vocab(vs) == validate_rules_vocab_from(vs, 1)

\* A well-formed vocabulary of one kind, and the ways one table of the
\* class can be broken.
GoodKind ==
    [labels |-> <<"a", "b", "c">>, assigned |-> <<"a", "b">>,
     variants |-> << <<"a", <<"x">> >> >>,
     broader_edges |-> << <<"a", "b">>, <<"b", "c">> >>,
     related_edges |-> << <<"a", "c">> >>]

BrokenKinds ==
    {[GoodKind EXCEPT !.labels = <<"a", "b", "c", "a">>],
     [GoodKind EXCEPT !.assigned = <<"a", "z">>],
     [GoodKind EXCEPT !.variants = << <<"a", <<"x">> >>, <<"b", <<"x">> >> >>],
     [GoodKind EXCEPT !.broader_edges = << <<"a", "b">>, <<"b", "z">> >>],
     [GoodKind EXCEPT !.related_edges = << <<"a", "a">> >>],
     [GoodKind EXCEPT !.broader_edges = << <<"a", "b">>, <<"b", "c">>, <<"c", "a">> >>]}

GoodVocab == [k \in Range(Kinds) |-> GoodKind]

BrokenVocabs == {[GoodVocab EXCEPT ![k] = b] : k \in Range(Kinds), b \in BrokenKinds}

(***************************************************************************)
(* SpecAcyclic: assert_acyclic on every list of at most MaxEdges edges     *)
(* over Nodes.                                                             *)
(***************************************************************************)
MaxEdges == 4

Nodes == {"a", "b", "c"}

EmptyVocab == [labels |-> <<>>, variants |-> <<>>, broader_edges |-> <<>>]

InitAcyclic ==
    /\ vpc = "input"
    /\ vocab \in {[EmptyVocab EXCEPT !.broader_edges = e] :
                     e \in SeqsUpTo(Nodes \X Nodes, MaxEdges)}
    /\ verdict = None
    /\ GenIdle /\ ClockIdle /\ LoadIdle

CheckAcyclic ==
    /\ vpc = "input"
    /\ verdict' = assert_acyclic(vocab.broader_edges)
    /\ vpc' = "done"
    /\ UNCHANGED <<vocab, genVars, clockVars, loadVars>>

NextAcyclic == CheckAcyclic

SpecAcyclic == InitAcyclic /\ [][NextAcyclic]_vars

\* The directed graph of a list of edges has a cycle: some node reaches
\* itself along one or more edges.
Compose(R, E) == {p \in Nodes \X Nodes : \E m \in Nodes : <<p[1], m>> \in R /\ <<m, p[2]>> \in E}

Closure(E) ==
    LET R[k \in 0..Cardinality(Nodes)] ==
            IF k = 0 THEN E ELSE R[k - 1] \cup Compose(R[k - 1], E)
    IN R[Cardinality(Nodes)]

HasCycle(E) == \E n \in Nodes : <<n, n>> \in Closure(E)

\* A reported path: every step of it is a child -> parent edge, and its last
\* node already occurs earlier on it, which closes the cycle.
IsFailingPath(path, E) ==
    /\ Len(path) >= 2
    /\ \A j \in 1..(Len(path) - 1) : <<path[j], path[j + 1]>> \in E
    /\ \E i \in 1..(Len(path) - 1) : path[i] = path[Len(path)]

ThreeCycles == {{<<"a", "b">>, <<"b", "c">>, <<"c", "a">>},
                {<<"a", "c">>, <<"c", "b">>, <<"b", "a">>}}

\* C9: the acyclicity check aborts exactly when the edges contain a cycle;
\* on abort the reported path is a path of the graph that closes a cycle (so
\* it holds every label of the detected cycle, all three for a 3-node cycle),
\* and cycle-free graphs, shared ancestors included, are accepted.
C9_AcyclicExact ==
    vpc = "done" =>
        LET E == Range(vocab.broader_edges)
        IN /\ verdict.abort <=> HasCycle(E)
           /\ verdict.abort => IsFailingPath(verdict.path, E)
           /\ (E \in ThreeCycles) => (verdict.abort /\ Nodes \subseteq Range(verdict.path))

\* An injected 3-node cycle was rejected.
C9_Witness ==
    /\ vpc = "done"
    /\ Range(vocab.broader_edges) \in ThreeCycles
    /\ verdict.abort
    /\ Len(verdict.path) = 4

(***************************************************************************)
(* SpecVariants: the label checks on a vocabulary of one kind into which   *)
(* up to MaxInjections variant labels were injected.                       *)
(***************************************************************************)
MaxInjections == 2

BuiltinPreferred == <<"a", "b">>

KeyLabels == {"a", "b", "z"}

RawVariants == {"a", "b", "x", "y", " a", "x "}

\* mapping[pref] = mapping.get(pref, []) + [v], keeping the dict's order.
inject(mapping, pref, v) ==
    IF \E i \in 1..Len(mapping) : mapping[i][1] = pref
    THEN [i \in 1..Len(mapping) |->
             IF mapping[i][1] = pref THEN <<pref, Append(mapping[i][2], v)>> ELSE mapping[i]]
    ELSE Append(mapping, <<pref, <<v>> >>)

RECURSIVE inject_all(_, _)
inject_all(mapping, injs) ==
    IF injs = <<>> THEN mapping
    ELSE inject_all(inject(mapping, injs[1][1], injs[1][2]), Tail(injs))

InitVariants ==
    /\ vpc = "input"
    /\ vocab \in {[EmptyVocab EXCEPT !.labels = BuiltinPreferred,
                                     !.variants = inject_all(<<>>, injs)] :
                     injs \in SeqsUpTo(KeyLabels \X RawVariants, MaxInjections)}
    /\ verdict = None
    /\ GenIdle /\ ClockIdle /\ LoadIdle

CheckLabels ==
    /\ vpc = "input"
    /\ verdict' = validate_labels(vocab.labels, vocab.variants)
    /\ vpc' = "done"
    /\ UNCHANGED <<vocab, genVars, clockVars, loadVars>>

NextVariants == CheckLabels

SpecVariants == InitVariants /\ [][NextVariants]_vars

\* What a vocabulary says, independently of the validator.
PreferredSet(v) == {strip(v.labels[i]) : i \in 1..Len(v.labels)}

\* <<preferred label, variant>> for every listed variant.
VariantPairs(v) ==
    UNION {{<<v.variants[i][1], strip(v.variants[i][2][j])>> :
               j \in 1..Len(v.variants[i][2])} : i \in 1..Len(v.variants)}

VariantEqualsPreferred(v) == \E p \in VariantPairs(v) : p[2] \in PreferredSet(v)

VariantShared(v) == \E p, q \in VariantPairs(v) : p[2] = q[2] /\ p[1] # q[1]

\* The terms a label resolves to: the term it is the preferred label of and
\* the terms that list it as a variant.
Resolves(v, label) ==
    {t \in PreferredSet(v) : t = label \/ <<t, label>> \in VariantPairs(v)}

Unambiguous(v) ==
    /\ \A i, j \in 1..Len(v.labels) : i # j => strip(v.labels[i]) # strip(v.labels[j])
    /\ \A p \in VariantPairs(v) : p[1] \in PreferredSet(v)
    /\ \A label \in PreferredSet(v) \cup {p[2] : p \in VariantPairs(v)} :
          Cardinality(Resolves(v, label)) <= 1

\* C10: validation aborts whenever a variant label equals a preferred label
\* of the kind (its own term's or another's) or is listed under two different
\* preferred labels, and what it accepts resolves every label to one term.
C10_VariantsRejected ==
    vpc = "done" =>
        /\ (VariantEqualsPreferred(vocab) \/ VariantShared(vocab)) => verdict.abort
        /\ ~verdict.abort => Unambiguous(vocab)

\* A variant shared by two preferred labels was rejected, by the owner test.
C10_Witness ==
    /\ vpc = "done"
    /\ VariantShared(vocab)
    /\ ~VariantEqualsPreferred(vocab)
    /\ verdict.abort
    /\ verdict.msg = "variant_label used by multiple terms"

(***************************************************************************)
(* The load script and psql                                                *)
(***************************************************************************)
MaxLoads == 2

MaxRows == 2

\* cfg.org_code of the runs, and another tenant's code.
Slug == "demo-lms-scale"

OtherSlug == "other-school"

\* uuid5(ns, f"org:{cfg.org_code}")
org_id_of(code) == <<"org", code>>

\* An organization the application created itself has an id of its own.
AppOrgId == <<"org", "gen_random_uuid">>

\* The script with the \copy of loans ahead of the copies and the users.
ChildTables_loans_first ==
    << "locations", "loans", "users", "user_credentials", "authority_terms",
       "authority_term_relations", "bibliographic_records",
       "bibliographic_subject_terms", "bibliographic_name_terms",
       "bibliographic_geographic_terms", "bibliographic_genre_terms",
       "item_copies", "circulation_policies", "holds",
       "inventory_sessions", "inventory_scans", "audit_events" >>

\* The tables load.sql fills after organizations, in the script's order.
ChildTables ==
    << "locations", "users", "user_credentials", "authority_terms",
       "authority_term_relations", "bibliographic_records",
       "bibliographic_subject_terms", "bibliographic_name_terms",
       "bibliographic_geographic_terms", "bibliographic_genre_terms",
       "item_copies", "circulation_policies", "loans", "holds",
       "inventory_sessions", "inventory_scans", "audit_events" >>

\* The tables whose ids the columns of a \copy statement carry
\* (organization_id, user_id, location_id, bibliographic_id, term_id,
\* from_term_id, to_term_id, item_id, assigned_item_id, session_id,
\* actor_user_id).
References ==
    [t \in Range(ChildTables) \cup {"organizations"} |->
        CASE t = "organizations" -> {}
          [] t = "user_credentials" -> {"users"}
          [] t = "authority_term_relations" -> {"organizations", "authority_terms"}
          [] t \in {"bibliographic_subject_terms", "bibliographic_name_terms",
                    "bibliographic_geographic_terms", "bibliographic_genre_terms"} ->
                {"organizations", "bibliographic_records", "authority_terms"}
          [] t = "item_copies" -> {"organizations", "bibliographic_records", "locations"}
          [] t = "loans" -> {"organizations", "item_copies", "users"}
          [] t = "holds" ->
                {"organizations", "bibliographic_records", "users", "locations",
                 "item_copies"}
          [] t = "inventory_sessions" -> {"organizations", "locations", "users"}
          [] t = "inventory_scans" ->
                {"organizations", "inventory_sessions", "locations", "item_copies",
                 "users"}
          [] t = "audit_events" -> {"organizations", "users"}
          [] OTHER -> {"organizations"}]

OrgRow(code, id, ver) ==
    [table |-> "organizations", id |-> id, org |-> id, code |-> code, ver |-> ver]

\* Row n of a child table: its id is uuid5 of the slug, the kind and a
\* discriminator; ver stands for the row's other fields.
ChildRow(t, code, org, n, ver) ==
    [table |-> t, id |-> <<code, t, n>>, org |-> org, code |-> "", ver |-> ver]

\* The CSV file written for a table by a run with quantities ver: ver rows
\* per child table.
CsvRows(t, code, ver) ==
    IF t = "organizations" THEN {OrgRow(code, org_id_of(code), ver)}
    ELSE {ChildRow(t, code, org_id_of(code), n, ver) : n \in 1..ver}

Dataset(code, ver) ==
    UNION {CsvRows(t, code, ver) : t \in Range(ChildTables) \cup {"organizations"}}

\* A tenant created through the application: its own org id, a few rows.
AppTenant(code) ==
    {OrgRow(code, AppOrgId, 0)}
        \cup {[table |-> t, id |-> <<"app", t, 0>>, org |-> AppOrgId, code |-> "", ver |-> 0] :
                 t \in {"users", "item_copies", "loans"}}

OrgIds(rows, code) == {r.id : r \in {x \in rows : x.table = "organizations" /\ x.code = code}}

\* The rows a tenant owns: its organizations row and every row of that org.
TenantRows(rows, code) ==
    {r \in rows : r.org \in OrgIds(rows, code)}

LoadScript_no_delete ==
    << <<"BEGIN">>, <<"SET_OLD">>, <<"SET_NEW">>, <<"COPY", "organizations">> >>
        \o [i \in 1..Len(ChildTables) |-> <<"COPY", ChildTables[i]>>]
        \o << <<"COMMIT">> >>

LoadScript_no_begin ==
    << <<"SET_OLD">>, <<"DELETE">>, <<"SET_NEW">>, <<"COPY", "organizations">> >>
        \o [i \in 1..Len(ChildTables) |-> <<"COPY", ChildTables[i]>>]
        \o << <<"COMMIT">> >>

\* load.sql, one entry per statement.
LoadScript ==
    << <<"BEGIN">>, <<"SET_OLD">>, <<"DELETE">>, <<"SET_NEW">>,
       <<"COPY", "organizations">> >>
        \o [i \in 1..Len(ChildTables) |-> <<"COPY", ChildTables[i]>>]
        \o << <<"COMMIT">> >>

\* Row level security of the org-scoped tables: a row is reachable only
\* while app.org_id is its organization.
Reachable(r, app) == r.table = "organizations" \/ r.org = app

\* DELETE FROM organizations WHERE code = ...: the organization goes and,
\* ON DELETE CASCADE, every row it owns.
delete_org(rows, code, app) ==
    LET gone == TenantRows(rows, code)
    IN IF \A r \in gone : Reachable(r, app)
       THEN [ok |-> TRUE, rows |-> rows \ gone]
       ELSE [ok |-> FALSE, rows |-> rows]

\* \copy <table> FROM <csv>: fails on a primary key already present or on a
\* row of another organization than app.org_id.
copy_rows(rows, new, app) ==
    IF /\ \A r \in new : Reachable(r, app)
       /\ \A r \in new : ~\E x \in rows : x.table = r.table /\ x.id = r.id
    THEN [ok |-> TRUE, rows |-> rows \cup new]
    ELSE [ok |-> FALSE, rows |-> rows]

\* SELECT set_config('app.org_id', COALESCE((SELECT id ...), ''), true)
old_org_id(rows, code) ==
    IF OrgIds(rows, code) = {} THEN <<>> ELSE CHOOSE i \in OrgIds(rows, code) : TRUE

\* The datastore before the first run: empty, or holding the tenant as an
\* earlier run or the application left it; another tenant may be present.
InitialStores ==
    {own \cup other :
        own \in {{}, AppTenant(Slug)} \cup {Dataset(Slug, v) : v \in 1..MaxRows},
        other \in {{}, Dataset(OtherSlug, 1)}}

InitLoad ==
    /\ db \in InitialStores
    /\ txn = NoTxn
    /\ psql = NoPsql
    /\ loadLog = <<>>
    /\ VocabIdle /\ GenIdle /\ ClockIdle

PsqlRunning == psql.exit = "running"

\* main() reaches step 6 with the CSV files and load.sql of a dataset written:
\* run_psql(["-f", "db/schema.sql"]).
StartSchema ==
    /\ ~PsqlRunning
    /\ Len(loadLog) < MaxLoads
    /\ \E v \in 1..MaxRows :
          psql' = [phase |-> "schema", pc |-> 0, app |-> <<>>, exit |-> "running",
                   before |-> db, ver |-> v, faulted |-> FALSE]
    /\ UNCHANGED <<db, txn, loadLog, vocabVars, genVars, clockVars>>

\* schema.sql (CREATE ... IF NOT EXISTS) touches no row; then
\* run_psql(["-f", load_sql]) starts.
SchemaDone ==
    /\ PsqlRunning /\ psql.phase = "schema"
    /\ psql' = [psql EXCEPT !.phase = "load", !.pc = 1]
    /\ UNCHANGED <<db, txn, loadLog, vocabVars, genVars, clockVars>>

\* psql ends: an open transaction is rolled back.
Ended(ok, faulted) ==
    /\ psql' = [psql EXCEPT !.exit = IF ok THEN "ok" ELSE "failed",
                            !.faulted = faulted, !.app = <<>>]
    /\ txn' = NoTxn
    /\ loadLog' = Append(loadLog, [ok |-> ok, faulted |-> faulted, ver |-> psql.ver,
                                   phase |-> psql.phase])

\* check=True: a failing schema.sql ends main() before load.sql is run.
SchemaFails ==
    /\ PsqlRunning /\ psql.phase = "schema"
    /\ Ended(FALSE, TRUE)
    /\ UNCHANGED <<db, vocabVars, genVars, clockVars>>

\* The effect of one statement on the rows it sees and on app.org_id.
exec(stmt, rows, app, ver, inTxn) ==
    CASE stmt[1] = "SET_OLD" ->
            [ok |-> TRUE, rows |-> rows,
             app |-> IF inTxn THEN old_org_id(rows, Slug) ELSE app]
      [] stmt[1] = "SET_NEW" ->
            [ok |-> TRUE, rows |-> rows,
             app |-> IF inTxn THEN org_id_of(Slug) ELSE app]
      [] stmt[1] = "DELETE" ->
            LET r == delete_org(rows, Slug, app)
            IN [ok |-> r.ok, rows |-> r.rows, app |-> app]
      [] stmt[1] = "COPY" ->
            LET r == copy_rows(rows, CsvRows(stmt[2], Slug, ver), app)
            IN [ok |-> r.ok, rows |-> r.rows, app |-> app]
      [] OTHER -> [ok |-> TRUE, rows |-> rows, app |-> app]

\* psql -v ON_ERROR_STOP=1 -f load.sql executes the next statement; an error
\* stops the script there.
Statement ==
    /\ PsqlRunning /\ psql.phase = "load" /\ psql.pc <= Len(LoadScript)
    /\ LET stmt == LoadScript[psql.pc]
           inTxn == txn.open
           r == exec(stmt, IF inTxn THEN txn.rows ELSE db, psql.app, psql.ver, inTxn)
       IN IF ~r.ok
          THEN Ended(FALSE, FALSE) /\ UNCHANGED db
          ELSE /\ psql' = [psql EXCEPT !.pc = @ + 1,
                                        !.app = IF stmt[1] = "COMMIT" THEN <<>> ELSE r.app]
               /\ loadLog' = loadLog
               /\ CASE stmt[1] = "BEGIN" ->
                          /\ txn' = IF inTxn THEN txn ELSE [open |-> TRUE, rows |-> db]
                          /\ db' = db
                    [] stmt[1] = "COMMIT" ->
                          /\ db' = IF inTxn THEN txn.rows ELSE db
                          /\ txn' = NoTxn
                    [] OTHER ->
                          IF inTxn THEN txn' = [txn EXCEPT !.rows = r.rows] /\ db' = db
                          ELSE db' = r.rows /\ txn' = txn
    /\ UNCHANGED <<vocabVars, genVars, clockVars>>

\* The statement fails for a reason outside the script (connection lost, a
\* server error): psql stops with a non-zero status.
StatementFails ==
    /\ PsqlRunning /\ psql.phase = "load" /\ psql.pc <= Len(LoadScript)
    /\ Ended(FALSE, TRUE)
    /\ UNCHANGED <<db, vocabVars, genVars, clockVars>>

\* End of the script: psql exits with status 0.
ScriptEnd ==
    /\ PsqlRunning /\ psql.phase = "load" /\ psql.pc > Len(LoadScript)
    /\ Ended(TRUE, FALSE)
    /\ UNCHANGED <<db, vocabVars, genVars, clockVars>>

NextLoad ==
    \/ StartSchema
    \/ SchemaDone
    \/ SchemaFails
    \/ Statement
    \/ StatementFails
    \/ ScriptEnd

SpecLoad == InitLoad /\ [][NextLoad]_vars

HasDuplicateIds(rows) ==
    \E r, x \in rows : r # x /\ r.table = x.table /\ r.id = x.id

LoadEnded == psql.exit \in {"ok", "failed"} /\ psql.phase = "load"

\* C7: after two runs of load.sql in succession with the same slug, neither
\* broken from outside, both ended with status 0 and the datastore holds one
\* tenant row for the slug and exactly the rows of the dataset loaded last.
C7_IdempotentReload ==
    (/\ Len(loadLog) >= 2
     /\ ~PsqlRunning
     /\ \A k \in {Len(loadLog) - 1, Len(loadLog)} :
           loadLog[k].phase = "load" /\ ~loadLog[k].faulted)
    => /\ loadLog[Len(loadLog) - 1].ok
       /\ loadLog[Len(loadLog)].ok
       /\ Cardinality({r \in db : r.table = "organizations" /\ r.code = Slug}) = 1
       /\ TenantRows(db, Slug) = Dataset(Slug, loadLog[Len(loadLog)].ver)
       /\ ~HasDuplicateIds(db)

\* Two loads ended, the second smaller than the first, over a store that held
\* the tenant before.
C7_Witness ==
    /\ Len(loadLog) = 2
    /\ ~PsqlRunning
    /\ loadLog[1].ok /\ loadLog[2].ok
    /\ loadLog[1].ver = 2 /\ loadLog[2].ver = 1
    /\ TenantRows(db, Slug) = Dataset(Slug, 1)

\* C8: when the load step has ended, the datastore is as it was before the
\* script began, or the previous tenant is gone whole and the new one is
\* there whole; while the script runs, the committed rows do not move.
C8_LoadAtomic ==
    /\ (PsqlRunning /\ psql.phase = "load" /\ psql.pc <= Len(LoadScript))
           => db = psql.before
    /\ LoadEnded =>
           \/ db = psql.before
           \/ db = (psql.before \ TenantRows(psql.before, Slug))
                       \cup Dataset(Slug, psql.ver)

\* A load failed after its DELETE and some \copy had run, over a store that
\* held the tenant, and left the store as it was.
C8_Witness ==
    /\ LoadEnded
    /\ psql.exit = "failed"
    /\ psql.pc > 8
    /\ TenantRows(psql.before, Slug) # {}
    /\ db = psql.before

\* The tables in the order the load is described: one rank per group.
TableRank(t) ==
    CASE t = "organizations" -> 1
      [] t \in {"locations", "users"} -> 2
      [] t = "user_credentials" -> 3
      [] t \in {"authority_terms", "authority_term_relations"} -> 4
      [] t = "bibliographic_records" -> 5
      [] t \in {"bibliographic_subject_terms", "bibliographic_name_terms",
                "bibliographic_geographic_terms", "bibliographic_genre_terms"} -> 6
      [] t = "item_copies" -> 7
      [] t = "circulation_policies" -> 8
      [] t = "loans" -> 9
      [] t = "holds" -> 10
      [] t = "inventory_sessions" -> 11
      [] t = "inventory_scans" -> 12
      [] OTHER -> 13

\* The tables of which the running script has loaded the new rows.
LoadedTables ==
    {t \in DOMAIN References :
        \E r \in txn.rows : r.table = t /\ r \in CsvRows(t, Slug, psql.ver)}

\* C26: while load.sql runs, the transaction is open from its first
\* statement to its last; app.org_id is the previous tenant's id (or empty)
\* when the tenant is deleted and the new tenant's id during every \copy;
\* the previous tenant's rows are gone before the first \copy; a table is
\* loaded only after every table its rows reference, in the order tenant,
\* locations and users, credentials, terms and relations, records, term
\* links, copies, policies, loans, holds, sessions, scans, audit events; and
\* the commit comes last.
C26_LoadOrder ==
    (PsqlRunning /\ psql.phase = "load" /\ psql.pc <= Len(LoadScript))
    => LET stmt == LoadScript[psql.pc]
       IN /\ txn.open <=> psql.pc > 1
          /\ (stmt[1] = "BEGIN") <=> (psql.pc = 1)
          /\ (stmt[1] = "COMMIT") <=> (psql.pc = Len(LoadScript))
          /\ stmt[1] = "DELETE" =>
                /\ psql.app = old_org_id(psql.before, Slug)
                /\ txn.rows = psql.before
          /\ stmt[1] = "SET_NEW" =>
                /\ TenantRows(txn.rows, Slug) = {}
                /\ txn.rows = psql.before \ TenantRows(psql.before, Slug)
          /\ stmt[1] = "COPY" =>
                /\ psql.app = org_id_of(Slug)
                /\ stmt[2] \notin LoadedTables
                /\ References[stmt[2]] \subseteq LoadedTables
                /\ \A t \in LoadedTables : TableRank(t) <= TableRank(stmt[2])
          /\ stmt[1] = "COMMIT" => LoadedTables = DOMAIN References

\* The script stands at the \copy of loans over a store that held the
\* tenant: copies and users are loaded, holds are not.
C26_Witness ==
    /\ PsqlRunning /\ psql.phase = "load" /\ psql.pc <= Len(LoadScript)
    /\ LoadScript[psql.pc] = <<"COPY", "loans">>
    /\ TenantRows(psql.before, Slug) # {}
    /\ {"item_copies", "users"} \subseteq LoadedTables
    /\ "holds" \notin LoadedTables

(***************************************************************************)
(* main(): the entity population engine                                    *)
(***************************************************************************)
\* Bounds of the configurations and of the random draws that are explored.
MaxStudents == 1

MaxTeachers == 1

MaxSmallBibs == 3

MaxClosedLoans == 1

MaxQueuedHolds == 2

MaxChoice == 1

MaxRotation == 2

MaxLocOffset == 1

MaxSessions == 2

MaxScans == 1

MaxAuditEvents == 1

MaxSampleRotation == 1

\* Program constants of the unexpected sample.
MinUnexpected == 10

UnexpectedDivisor == 10

\* SCALE_ORG_CODE as its characters.
DefaultOrgCode == <<"d", "e", "m", "o", "-", "l", "m", "s">>

\* The quantities of the spec's scenario: 10 records, at most 2 copies each,
\* 3 open loans, 2 ready holds.
ScenarioConfig ==
    [students |-> 1, teachers |-> 1, bibs |-> 10, max_copies_per_bib |-> 2,
     open_loans |-> 3, closed_loans |-> 1, ready_holds |-> 2, queued_holds |-> 1,
     inventory_sessions |-> 1, scans_per_session |-> 0, audit_events |-> 0,
     org_code |-> DefaultOrgCode, text_provider |-> "rules"]

\* Enough copies for the random partition to reach open loans and ready holds.
LargeConfigs ==
    {[students |-> 1, teachers |-> 1, bibs |-> 12, max_copies_per_bib |-> 2,
      open_loans |-> 2, closed_loans |-> c, ready_holds |-> 2, queued_holds |-> q,
      inventory_sessions |-> 1, scans_per_session |-> 0, audit_events |-> 0,
      org_code |-> DefaultOrgCode, text_provider |-> "rules"] :
        c \in 0..MaxClosedLoans, q \in {0, MaxQueuedHolds}}

SmallConfigs ==
    {[students |-> s, teachers |-> t, bibs |-> b, max_copies_per_bib |-> 2,
      open_loans |-> o, closed_loans |-> h, ready_holds |-> 1, queued_holds |-> h,
      inventory_sessions |-> 0, scans_per_session |-> 0, audit_events |-> 0,
      org_code |-> DefaultOrgCode, text_provider |-> "rules"] :
        s \in 0..MaxStudents, t \in 0..MaxTeachers, b \in 0..MaxSmallBibs,
        o \in 0..2, h \in 0..1}

\* The configurations of whole runs: a base with two records, and families
\* that vary the records, the loans and holds, the inventory and the audit
\* events, one at a time.
BaseConfig ==
    [students |-> 1, teachers |-> 1, bibs |-> 2, max_copies_per_bib |-> 2,
     open_loans |-> 1, closed_loans |-> 0, ready_holds |-> 0, queued_holds |-> 0,
     inventory_sessions |-> 0, scans_per_session |-> 0, audit_events |-> 0,
     org_code |-> DefaultOrgCode, text_provider |-> "rules"]

RecordConfigs ==
    {[BaseConfig EXCEPT !.bibs = b, !.open_loans = o, !.closed_loans = h, !.queued_holds = h] :
        b \in 0..2, o \in {0, 1, 3}, h \in 0..1}

InventoryConfigs ==
    {[BaseConfig EXCEPT !.bibs = MaxSmallBibs, !.inventory_sessions = n,
                        !.scans_per_session = k] :
        n \in 1..MaxSessions, k \in 0..MaxScans}

AuditConfigs ==
    {[BaseConfig EXCEPT !.bibs = b, !.open_loans = IF b = 0 THEN 0 ELSE 1,
                        !.closed_loans = IF b = 0 THEN 0 ELSE 1,
                        !.queued_holds = IF b = 0 THEN 0 ELSE 1,
                        !.audit_events = a] :
        b \in {0, 2}, a \in 1..MaxAuditEvents}

\* As many students as it takes for the loop to reach the number of the
\* student login account.
LoginStudentNumber == 123

StudentConfigs ==
    {[BaseConfig EXCEPT !.students = s, !.closed_loans = 1, !.queued_holds = 1,
                        !.inventory_sessions = 1] :
        s \in {LoginStudentNumber, LoginStudentNumber + 1}}

MainConfigs == RecordConfigs \cup InventoryConfigs \cup AuditConfigs \cup StudentConfigs

Configs == SmallConfigs \cup LargeConfigs \cup {ScenarioConfig}

\* Program constants of the status partition.
MinLost == 5

LostDivisor == 200

MinRepair == 5

RepairDivisor == 200

MinWithdrawn == 5

WithdrawnDivisor == 500

sentinel_bib_index == 1

sentinel_unavailable_bib_index == 2

\* locations: the four active ones pick_location_id draws from, and CLOSED.
loc_main == "MAIN"

loc_branch == "BRANCH"

loc_classroom == "CLASSROOM"

loc_storage == "STORAGE"

RealLocations == <<loc_main, loc_branch, loc_classroom, loc_storage>>

loc_closed == "CLOSED"

\* 3.2 locations
locations ==
    [k \in 1..4 |-> [id |-> RealLocations[k], status |-> "active"]]
        \o <<[id |-> loc_closed, status |-> "inactive"]>>

\* rng.choice(seq): one of the first MaxChoice elements or the last one.
Choice(seq) == {seq[k] : k \in {j \in 1..Len(seq) : j <= MaxChoice \/ j = Len(seq)}}

\* Python's seq[a:b] (0-based, half open, clamped to the list).
Slice(seq, a, b) ==
    LET hi == Min(b, Len(seq))
    IN IF a >= hi THEN <<>> ELSE [k \in 1..(hi - a) |-> seq[a + k]]

\* rng.shuffle(idx_all): the orders explored, the rotations of the list.
Rotate(seq, r) == Slice(seq, r, Len(seq)) \o Slice(seq, 0, r)

Shuffles(seq) == {Rotate(seq, r) : r \in 0..Min(MaxRotation, Max(Len(seq) - 1, 0))}

\* users: external ids are <<letter, number>>; uuid5 of the external id is
\* the user id.
User(letter, n, role, status) ==
    [id |-> <<letter, n>>, external_id |-> <<letter, n>>, role |-> role, status |-> status]

admin_id == <<"A", 1>>

librarian_id == <<"L", 1>>

teacher_login_id == <<"T", 1>>

student_login_id == <<"S", 1130123>>

login_user_ids == {teacher_login_id, student_login_id}

\* 3.4 user_credentials: the user ids of the rows.
credentials_rows == <<admin_id, librarian_id, teacher_login_id, student_login_id>>

build_users_no_skip(c) ==
    LET logins == << User("A", 1, "admin", "active"), User("L", 1, "librarian", "active"),
                     User("T", 1, "teacher", "active"),
                     User("S", 1130123, "student", "active") >>
        teachers == [k \in 1..Max(c.teachers - 1, 0) |->
                        User("T", k + 1, "teacher", "active")]
        students == [i \in 1..c.students |->
                        User("S", 1130000 + i, "student",
                             IF i % 97 = 0 THEN "inactive" ELSE "active")]
    IN logins \o teachers \o students

\* 3.3 users: the four login accounts, teachers T0002.., students S113nnnn
\* (every 97th inactive, S1130123 not added again).
build_users(c) ==
    LET logins == << User("A", 1, "admin", "active"), User("L", 1, "librarian", "active"),
                     User("T", 1, "teacher", "active"),
                     User("S", 1130123, "student", "active") >>
        teachers == [k \in 1..Max(c.teachers - 1, 0) |->
                        User("T", k + 1, "teacher", "active")]
        students == [i \in 1..c.students |->
                        User("S", 1130000 + i, "student",
                             IF i % 97 = 0 THEN "inactive" ELSE "active")]
    IN logins \o teachers \o SelectSeq(students, LAMBDA u : u.id # student_login_id)

\* 3.6 items: the copies of every record, in barcode order.  copies_of gives
\* rng.randint(1, max_copies_per_bib) of a record, offset the draws of
\* pick_location_id; the two sentinel records get one copy at MAIN.
build_items(c, copies_of, offset) ==
    LET F[i \in 0..c.bibs] ==
            IF i = 0 THEN <<>>
            ELSE LET sentinel == i \in {sentinel_bib_index, sentinel_unavailable_bib_index}
                     copies == IF sentinel THEN 1 ELSE copies_of[i]
                     base == Len(F[i - 1])
                 IN F[i - 1] \o
                    [n \in 1..copies |->
                        [id |-> base + n,
                         bibliographic_id |-> i,
                         copy |-> n,
                         location_id |-> IF sentinel THEN loc_main
                                         ELSE RealLocations[((base + n + offset) % 4) + 1],
                         status |-> "available"]]
    IN F[c.bibs]

\* The draws of rng.randint(1, max) explored: one value for the records with
\* an odd number, one for those with an even number.
CopyDraws(c) ==
    {[i \in 1..c.bibs |-> IF i % 2 = 1 THEN odd ELSE even] :
        odd \in 1..c.max_copies_per_bib, even \in 1..c.max_copies_per_bib}

\* sentinel_available_item_index / sentinel_unavailable_item_index: the
\* position of the copy recorded in the loop, 0 for None.  Positions in this
\* model count from 1.
sentinel_item_index(its, bib) ==
    IF \E k \in 1..Len(its) : its[k].bibliographic_id = bib /\ its[k].copy = 1
    THEN CHOOSE k \in 1..Len(its) : its[k].bibliographic_id = bib /\ its[k].copy = 1
    ELSE 0

sentinel_item_indexes(its) ==
    {sentinel_item_index(its, sentinel_bib_index),
     sentinel_item_index(its, sentinel_unavailable_bib_index)} \ {0}

forced_checked_out_indexes(its) ==
    {sentinel_item_index(its, sentinel_unavailable_bib_index)} \ {0}

idx_all_with_sentinels(its) == [k \in 1..Len(its) |-> k]

\* idx_all before the shuffle.
idx_all(its) ==
    SelectSeq([k \in 1..Len(its) |-> k], LAMBDA k : k \notin sentinel_item_indexes(its))

partition_overlapping(its, c, shuffled) ==
    LET n_lost == Max(MinLost, Len(its) \div LostDivisor)
        n_repair == Max(MinRepair, Len(its) \div RepairDivisor)
        n_withdrawn == Max(MinWithdrawn, Len(its) \div WithdrawnDivisor)
        open_loan_target ==
            Max(0, c.open_loans - Cardinality(forced_checked_out_indexes(its)))
    IN [idx_all |-> shuffled, lost_idx |-> Range(Slice(shuffled, 0, n_lost)),
        repair_idx |-> Range(Slice(shuffled, n_lost, n_lost + n_repair)),
        withdrawn_idx |-> Range(Slice(shuffled, n_lost + n_repair,
                                      n_lost + n_repair + n_withdrawn)),
        open_loan_idx |-> Range(Slice(shuffled, 0, open_loan_target)),
        ready_hold_idx |-> Range(Slice(shuffled, open_loan_target,
                                       open_loan_target + c.ready_holds))]

\* 3.7: the slices of the shuffled idx_all.
partition(its, c, shuffled) ==
    LET n_lost == Max(MinLost, Len(its) \div LostDivisor)
        n_repair == Max(MinRepair, Len(its) \div RepairDivisor)
        n_withdrawn == Max(MinWithdrawn, Len(its) \div WithdrawnDivisor)
        lost == Range(Slice(shuffled, 0, n_lost))
        repair == Range(Slice(shuffled, n_lost, n_lost + n_repair))
        withdrawn == Range(Slice(shuffled, n_lost + n_repair,
                                 n_lost + n_repair + n_withdrawn))
        remaining == SelectSeq(shuffled,
                               LAMBDA i : i \notin lost /\ i \notin repair /\ i \notin withdrawn)
        open_loan_target ==
            Max(0, c.open_loans - Cardinality(forced_checked_out_indexes(its)))
        open == Range(Slice(remaining, 0, open_loan_target))
        remaining2 == SelectSeq(remaining, LAMBDA i : i \notin open)
    IN [idx_all |-> shuffled, lost_idx |-> lost, repair_idx |-> repair,
        withdrawn_idx |-> withdrawn, open_loan_idx |-> open,
        ready_hold_idx |-> Range(Slice(remaining2, 0, c.ready_holds))]

assign_status_unforced(its, p) ==
    [k \in 1..Len(its) |->
        [its[k] EXCEPT !.status =
            IF k \in p.lost_idx THEN "lost"
            ELSE IF k \in p.repair_idx THEN "repair"
            ELSE IF k \in p.withdrawn_idx THEN "withdrawn"
            ELSE IF k \in p.open_loan_idx THEN "checked_out"
            ELSE IF k \in p.ready_hold_idx THEN "on_hold"
            ELSE @]]

\* The status loop, then the forced status of the sentinel copy.
assign_status(its, p) ==
    [k \in 1..Len(its) |->
        [its[k] EXCEPT !.status =
            IF k \in forced_checked_out_indexes(its) THEN "checked_out"
            ELSE IF k \in p.lost_idx THEN "lost"
            ELSE IF k \in p.repair_idx THEN "repair"
            ELSE IF k \in p.withdrawn_idx THEN "withdrawn"
            ELSE IF k \in p.open_loan_idx THEN "checked_out"
            ELSE IF k \in p.ready_hold_idx THEN "on_hold"
            ELSE @]]

\* borrowers_active, and borrowers_bulk with its fallback.
borrowers_active(us) ==
    SelectSeq(us, LAMBDA u : u.role \in {"student", "teacher"} /\ u.status = "active")

borrowers_bulk(us) ==
    LET bulk == SelectSeq(borrowers_active(us), LAMBDA u : u.id \notin login_user_ids)
    IN IF bulk = <<>> THEN borrowers_active(us) ELSE bulk

items_checked_out_random_only(its, p) ==
    SelectSeq(its, LAMBDA it : it.id \in p.open_loan_idx)

\* items_checked_out = [it for it in items if it["status"] == "checked_out"]
items_checked_out(its, p) == SelectSeq(its, LAMBDA it : it.status = "checked_out")

\* One open loan per checked-out copy; borrower_of[k] is the k-th
\* rng.choice(borrowers_bulk).
open_loans_for(out, borrower_of) ==
    [k \in 1..Len(out) |->
        [id |-> <<"open", out[k].id>>, item_id |-> out[k].id,
         user_id |-> borrower_of[k].id, status |-> "open"]]

\* The closed loans; draw[i] is <<borrower, item>> of loan i.
closed_loans_for(n, draw) ==
    [i \in 1..n |->
        [id |-> <<"closed", i>>, item_id |-> draw[i][2].id,
         user_id |-> draw[i][1].id, status |-> "closed"]]

key_taken_never(keys, key) == FALSE

\* if key in active_hold_keys: continue
key_taken(keys, key) == key \in keys

ready_hold_row_unassigned(it, user) ==
    [id |-> <<"ready", it.id>>, bibliographic_id |-> it.bibliographic_id,
     user_id |-> user.id, pickup_location_id |-> it.location_id,
     status |-> "ready", assigned_item_id |-> 0]

\* The row appended for a ready hold on the copy it.
ready_hold_row(it, user) ==
    [id |-> <<"ready", it.id>>, bibliographic_id |-> it.bibliographic_id,
     user_id |-> user.id, pickup_location_id |-> it.location_id,
     status |-> "ready", assigned_item_id |-> it.id]

\* Ready holds: one per on_hold copy unless the (user, record) key is taken.
\* acc is [holds, keys].
RECURSIVE ready_holds_loop(_, _, _, _)
ready_holds_loop(ready_items, user_of, k, acc) ==
    IF k > Len(ready_items) THEN acc
    ELSE LET it == ready_items[k]
             key == <<user_of[k].id, it.bibliographic_id>>
         IN IF key_taken(acc.keys, key)
            THEN ready_holds_loop(ready_items, user_of, k + 1, acc)
            ELSE ready_holds_loop(ready_items, user_of, k + 1,
                    [holds |-> Append(acc.holds, ready_hold_row(it, user_of[k])),
                     keys |-> acc.keys \cup {key}])

\* Queued holds; draw[i] is <<record, user, pickup location>> of hold i; the
\* id 0 of assigned_item_id is NULL.
RECURSIVE queued_holds_loop(_, _, _, _)
queued_holds_loop(n, draw, i, acc) ==
    IF i > n THEN acc
    ELSE LET key == <<draw[i][2].id, draw[i][1]>>
         IN IF key_taken(acc.keys, key)
            THEN queued_holds_loop(n, draw, i + 1, acc)
            ELSE queued_holds_loop(n, draw, i + 1,
                    [holds |-> Append(acc.holds,
                                  [id |-> <<"queued", i>>,
                                   bibliographic_id |-> draw[i][1],
                                   user_id |-> draw[i][2].id,
                                   pickup_location_id |-> draw[i][3],
                                   status |-> "queued",
                                   assigned_item_id |-> 0]),
                     keys |-> acc.keys \cup {key}])

\* bib_ids = [b["id"] for b in bibs if b["id"] != sentinel_bib_id]
bib_ids(c) == SelectSeq([i \in 1..c.bibs |-> i], LAMBDA i : i # sentinel_bib_index)

(***************************************************************************)
(* load_config and the steps of main() before the generation               *)
(***************************************************************************)
LowerAlnum ==
    {"a", "b", "c", "d", "e", "f", "g", "h", "i", "j", "k", "l", "m", "n", "o", "p", "q",
     "r", "s", "t", "u", "v", "w", "x", "y", "z",
     "0", "1", "2", "3", "4", "5", "6", "7", "8", "9"}

\* ORG_CODE_RE = ^[a-z0-9][a-z0-9-]{1,62}$
ORG_CODE_RE(code) ==
    /\ Len(code) >= 2
    /\ Len(code) <= 63
    /\ code[1] \in LowerAlnum
    /\ \A i \in 2..Len(code) : code[i] \in LowerAlnum \cup {"-"}

\* The settings load_config passes to must_positive, in the order of the
\* calls before and after SCALE_MAX_COPIES_PER_BIB.
PositiveBefore == <<"students", "teachers", "bibs">>

PositiveAfter == <<"open_loans", "closed_loans", "ready_holds", "queued_holds",
                  "inventory_sessions", "scans_per_session", "audit_events">>

\* must_positive over a list of settings: the first value below 0 ends the
\* run with the name of the setting.
must_positive_unchecked(e, names, i) == Ok

RECURSIVE must_positive(_, _, _)
must_positive(e, names, i) ==
    IF i > Len(names) THEN Ok
    ELSE IF e[names[i]] < 0 THEN Abort(names[i])
    ELSE must_positive(e, names, i + 1)

load_config(e) ==
    IF ~ORG_CODE_RE(e.org_code) THEN Abort("org_code")
    ELSE IF e.text_provider \notin {"rules", "hf"} THEN Abort("text_provider")
    ELSE LET before == must_positive(e, PositiveBefore, 1)
             after == must_positive(e, PositiveAfter, 1)
         IN IF before.abort THEN before
            ELSE IF e.max_copies_per_bib < 1 \/ e.max_copies_per_bib > 10
                 THEN Abort("max_copies_per_bib")
            ELSE after

\* Environments load_config rejects: the scenario with one or two settings
\* out of range.
BadEnvs ==
    {[ScenarioConfig EXCEPT !.org_code = c] :
        c \in {<<"a">>, <<"-", "a", "b">>, <<"D", "e", "m", "o">>}}
    \cup {[ScenarioConfig EXCEPT !.text_provider = "gpt"]}
    \cup {[ScenarioConfig EXCEPT ![n] = -1] : n \in Range(PositiveBefore) \cup Range(PositiveAfter)}
    \cup {[ScenarioConfig EXCEPT !.max_copies_per_bib = m] : m \in {0, 11}}
    \cup {[ScenarioConfig EXCEPT !.bibs = -1, !.audit_events = -1]}

HfEnvs == {[c EXCEPT !.text_provider = "hf"] : c \in {BaseConfig} \cup AuditConfigs}

\* Files a former run left in the work directory.
StaleFiles == {"items.csv", "load.sql"}

ExportFiles ==
    {"organizations.csv", "locations.csv", "users.csv", "user_credentials.csv",
     "authority_terms.csv", "authority_term_relations.csv", "bibs.csv",
     "bibliographic_subject_terms.csv", "bibliographic_name_terms.csv",
     "bibliographic_geographic_terms.csv", "bibliographic_genre_terms.csv", "items.csv",
     "policies.csv", "loans.csv", "holds.csv", "inventory_sessions.csv",
     "inventory_scans.csv", "audit_events.csv"}

\* The environment, the tables of the vocabulary class and the work
\* directory a run starts with.
Inputs ==
    {<<e, GoodVocab, {}>> : e \in MainConfigs}
    \cup {<<BaseConfig, v, {}>> : v \in BrokenVocabs}
    \cup {<<e, GoodVocab, StaleFiles>> : e \in BadEnvs \cup HfEnvs \cup {BaseConfig}}
    \cup {<<e, v, StaleFiles>> : e \in HfEnvs, v \in BrokenVocabs}

\* A whole run of main().
InitMain ==
    /\ pc = "config"
    /\ \E input \in Inputs :
          /\ env = input[1]
          /\ vocab = input[2]
          /\ workdir = input[3]
    /\ vpc = "idle"
    /\ verdict = NotValidated
    /\ cfg = NoConfig
    /\ users = <<>>
    /\ items = <<>>
    /\ parts = NoParts
    /\ loans = <<>>
    /\ holds = <<>>
    /\ active_hold_keys = {}
    /\ written = {}
    /\ issued = <<>>
    /\ diag = ""
    /\ rng = "none"
    /\ TailIdle /\ TermIdle
    /\ ClockIdle /\ LoadIdle

\* The generation steps 3.3 to 3.10 of a run whose configuration was loaded
\* and whose vocabulary was validated.
Init ==
    /\ pc = "users"
    /\ cfg \in Configs
    /\ env = cfg
    /\ vocab = GoodVocab
    /\ vpc = "idle"
    /\ verdict = validate_rules_vocab(GoodVocab)
    /\ users = <<>>
    /\ items = <<>>
    /\ parts = NoParts
    /\ loans = <<>>
    /\ holds = <<>>
    /\ active_hold_keys = {}
    /\ workdir = {}
    /\ written = {}
    /\ issued = <<>>
    /\ diag = ""
    /\ rng = "seeded"
    /\ TailIdle /\ TermIdle
    /\ ClockIdle /\ LoadIdle

Others == <<vocabVars, clockVars, loadVars>>

Lists == <<users, items, parts, loans, holds, active_hold_keys, tailVars, termVars>>

\* rng after a step that drew from it when drew holds.
after_draws(drew) == IF drew THEN "drawn" ELSE rng

\* cfg = load_config()
LoadConfig ==
    /\ pc = "config"
    /\ LET r == load_config(env)
       IN IF r.abort
          THEN pc' = "aborted" /\ diag' = r.msg /\ cfg' = cfg
          ELSE pc' = "workdir" /\ diag' = diag /\ cfg' = env
    /\ UNCHANGED <<Lists, env, workdir, written, issued, rng, Others>>

\* 1) the work directory is emptied and created
ResetWorkdir ==
    /\ pc = "workdir"
    /\ workdir' = {}
    /\ pc' = "provider"
    /\ UNCHANGED <<cfg, Lists, env, written, issued, diag, rng, Others>>

MakeTextProvider_lazy ==
    /\ pc = "provider"
    /\ rng' = "seeded"
    /\ pc' = "users"
    /\ UNCHANGED <<cfg, Lists, env, workdir, written, issued, diag, Others>>

\* 2) rng = random.Random(cfg.seed); text = make_text_provider(cfg, rng):
\* the constructor of the hf provider raises RuntimeError.
MakeTextProvider ==
    /\ pc = "provider"
    /\ rng' = "seeded"
    /\ IF cfg.text_provider = "rules"
       THEN pc' = "validate" /\ diag' = diag
       ELSE pc' = "crashed" /\ diag' = "RuntimeError"
    /\ UNCHANGED <<cfg, Lists, env, workdir, written, issued, Others>>

\* validate_rules_vocab()
ValidateVocab ==
    /\ pc = "validate"
    /\ verdict' = validate_rules_vocab(vocab)
    /\ IF verdict'.abort
       THEN pc' = "aborted" /\ diag' = verdict'.msg
       ELSE pc' = "users" /\ diag' = diag
    /\ UNCHANGED <<cfg, Lists, env, workdir, written, issued, rng, vpc, vocab,
                   clockVars, loadVars>>

(***************************************************************************)
(* main(): the generation steps                                            *)
(***************************************************************************)
\* What the generation steps leave alone.
Outside == <<env, workdir, written, issued, tailVars, termVars, Others>>

\* 3.3 users
GenerateUsers ==
    /\ pc = "users"
    /\ users' = build_users(cfg)
    /\ rng' = after_draws(cfg.teachers >= 2 \/ cfg.students >= 1)
    /\ pc' = "items"
    /\ UNCHANGED <<cfg, items, parts, loans, holds, active_hold_keys, diag, Outside>>

\* 3.5 / 3.6 records and their copies, all available
GenerateItems ==
    /\ pc = "items"
    /\ \E copies_of \in CopyDraws(cfg), offset \in 0..MaxLocOffset :
          items' = build_items(cfg, copies_of, offset)
    /\ rng' = after_draws(cfg.bibs >= 1)
    /\ pc' = "status"
    /\ UNCHANGED <<cfg, users, parts, loans, holds, active_hold_keys, diag, Outside>>

\* 3.7: SCALE_OPEN_LOANS too large
OpenLoansTooLarge ==
    /\ pc = "status"
    /\ cfg.open_loans > Len(items)
    /\ pc' = "aborted"
    /\ diag' = "open_loans"
    /\ UNCHANGED <<cfg, users, items, parts, loans, holds, active_hold_keys, rng, Outside>>

\* 3.7: shuffle, slice, assign
AssignStatus ==
    /\ pc = "status"
    /\ cfg.open_loans <= Len(items)
    /\ \E shuffled \in Shuffles(idx_all(items)) :
          LET p == partition(items, cfg, shuffled)
          IN /\ parts' = p
             /\ items' = assign_status(items, p)
    /\ rng' = after_draws(Len(idx_all(items)) >= 2)
    /\ pc' = "open_loans"
    /\ UNCHANGED <<cfg, users, loans, holds, active_hold_keys, diag, Outside>>

\* 3.9: the borrower pools, then the open loans; without an active borrower
\* the run ends with a diagnostic.
OpenLoans ==
    /\ pc = "open_loans"
    /\ IF borrowers_active(users) = <<>>
       THEN pc' = "aborted" /\ diag' = "no active borrowers" /\ loans' = loans /\ rng' = rng
       ELSE /\ LET out == items_checked_out(items, parts)
               IN /\ \E borrower_of \in [1..Len(out) -> Choice(borrowers_bulk(users))] :
                        loans' = open_loans_for(out, borrower_of)
                  /\ rng' = after_draws(out # <<>>)
            /\ pc' = "closed_loans"
            /\ diag' = diag
    /\ UNCHANGED <<cfg, users, items, parts, holds, active_hold_keys, Outside>>

\* 3.9: the closed loans
ClosedLoans ==
    /\ pc = "closed_loans"
    /\ cfg.closed_loans = 0 \/ items # <<>>
    /\ \E draw \in [1..cfg.closed_loans -> Choice(borrowers_bulk(users)) \X Choice(items)] :
          loans' = loans \o closed_loans_for(cfg.closed_loans, draw)
    /\ rng' = after_draws(cfg.closed_loans >= 1)
    /\ pc' = "ready_holds"
    /\ UNCHANGED <<cfg, users, items, parts, holds, active_hold_keys, diag, Outside>>

\* rng.choice(items) on an empty list raises IndexError, which main() does
\* not catch.
ClosedLoansCrash ==
    /\ pc = "closed_loans"
    /\ cfg.closed_loans > 0 /\ items = <<>>
    /\ pc' = "crashed"
    /\ diag' = "IndexError"
    /\ rng' = "drawn"
    /\ UNCHANGED <<cfg, users, items, parts, loans, holds, active_hold_keys, Outside>>

\* 3.10: the ready holds
ReadyHolds ==
    /\ pc = "ready_holds"
    /\ LET ready_items == SelectSeq(items, LAMBDA it : it.status = "on_hold")
       IN /\ \E user_of \in [1..Len(ready_items) -> Choice(borrowers_bulk(users))] :
                LET r == ready_holds_loop(ready_items, user_of, 1,
                                          [holds |-> <<>>, keys |-> {}])
                IN /\ holds' = r.holds
                   /\ active_hold_keys' = r.keys
          /\ rng' = after_draws(ready_items # <<>>)
    /\ pc' = "queued_holds"
    /\ UNCHANGED <<cfg, users, items, parts, loans, diag, Outside>>

\* 3.10: the queued holds
QueuedHolds ==
    /\ pc = "queued_holds"
    /\ cfg.queued_holds = 0 \/ bib_ids(cfg) # <<>>
    /\ \E draw \in [1..cfg.queued_holds ->
                       Choice(bib_ids(cfg)) \X Choice(borrowers_bulk(users))
                           \X Choice(<<loc_main, loc_branch, loc_classroom>>)] :
          LET r == queued_holds_loop(cfg.queued_holds, draw, 1,
                                     [holds |-> holds, keys |-> active_hold_keys])
          IN /\ holds' = r.holds
             /\ active_hold_keys' = r.keys
    /\ rng' = after_draws(cfg.queued_holds >= 1)
    /\ pc' = "inventory"
    /\ UNCHANGED <<cfg, users, items, parts, loans, diag, Outside>>

\* rng.choice(bib_ids) on an empty list raises IndexError.
QueuedHoldsCrash ==
    /\ pc = "queued_holds"
    /\ cfg.queued_holds > 0 /\ bib_ids(cfg) = <<>>
    /\ pc' = "crashed"
    /\ diag' = "IndexError"
    /\ rng' = rng
    /\ UNCHANGED <<cfg, users, items, parts, loans, holds, active_hold_keys, Outside>>

(***************************************************************************)
(* main(): inventory sessions, audit events, export and load               *)
(***************************************************************************)
\* rng.sample(population, k): k elements at distinct positions; the orders
\* explored are the first k elements of the rotations of the population.
Sample(population, k) ==
    {Slice(Rotate(population, r), 0, k) :
        r \in 0..Min(MaxSampleRotation, Max(Len(population) - 1, 0))}

session_id(s) == <<"inv_session", s>>

\* scan_targets of a session at location_id: a sample of the available
\* copies of the location, then a sample of the unexpected pool.
scan_targets(its, c, location_id) ==
    LET available_in_loc ==
            SelectSeq(its, LAMBDA it : it.location_id = location_id /\ it.status = "available")
        unexpected_pool ==
            SelectSeq(its, LAMBDA it : it.status # "available" \/ it.location_id # location_id)
    IN {a \o u :
          a \in Sample(available_in_loc, Min(Len(available_in_loc), c.scans_per_session)),
          u \in Sample(unexpected_pool,
                       Min(Len(unexpected_pool),
                           Max(MinUnexpected, c.scans_per_session \div UnexpectedDivisor)))}

scan_location_of_item(location_id, it) == it.location_id

\* "location_id": location_id in the scan row
scan_location(location_id, it) == location_id

\* The loop over scan_targets with seen_item_ids; idx gives scanned_at.
RECURSIVE scans_loop(_, _, _, _, _, _)
scans_loop(s, location_id, targets, idx, seen, rows) ==
    IF idx > Len(targets) THEN rows
    ELSE LET it == targets[idx]
         IN IF it.id \in seen
            THEN scans_loop(s, location_id, targets, idx + 1, seen, rows)
            ELSE scans_loop(s, location_id, targets, idx + 1, seen \cup {it.id},
                    Append(rows,
                           [id |-> <<"inv_scan", s, it.id>>,
                            session_id |-> session_id(s),
                            location_id |-> scan_location(location_id, it),
                            item_id |-> it.id,
                            scanned_at |-> idx]))

session_row(s, location_id) ==
    [id |-> session_id(s), location_id |-> location_id, closed |-> s <= 1]

\* for s in range(1, max(1, cfg.inventory_sessions) + 1)
n_sessions(c) == Max(1, c.inventory_sessions)

session_locations(s) ==
    IF s = 1 THEN {loc_main} ELSE Choice(<<loc_main, loc_branch, loc_classroom>>)

\* The scans of session s at location_id for every draw of the samples;
\* none when the location holds no copy.
session_scans(its, c, s, location_id) ==
    IF SelectSeq(its, LAMBDA it : it.location_id = location_id) = <<>> THEN {<<>>}
    ELSE {scans_loop(s, location_id, t, 1, {}, <<>>) : t \in scan_targets(its, c, location_id)}

\* 3.11: the rows after sessions 1..s, for every outcome of the draws.
RECURSIVE inventory_outcomes(_, _, _)
inventory_outcomes(its, c, s) ==
    IF s = 0 THEN {[sessions |-> <<>>, scans |-> <<>>]}
    ELSE UNION {UNION {{[sessions |-> Append(prev.sessions, session_row(s, location_id)),
                         scans |-> prev.scans \o sc] :
                           sc \in session_scans(its, c, s, location_id)} :
                       location_id \in session_locations(s)} :
                prev \in inventory_outcomes(its, c, s - 1)}

\* 3.12: the (action, entity_type) pairs and the actors.
actions ==
    << <<"user.import_csv", "user">>, <<"bib.create", "bib">>, <<"item.create", "item">>,
       <<"loan.checkout", "loan">>, <<"loan.checkin", "loan">>, <<"hold.place", "hold">>,
       <<"hold.fulfill", "hold">>, <<"inventory.scan", "inventory_scan">>,
       <<"report.export_csv", "report">> >>

actor_pool == <<admin_id, librarian_id>>

\* The identifier strings are uuid5 of names that carry the kind of the
\* entity; an identifier is written here as its kind followed by its key.
entity_ids(entity_type, c, us, its, ls, hs, scans) ==
    CASE entity_type = "loan" -> [k \in 1..Len(ls) |-> <<"loan">> \o ls[k].id]
      [] entity_type = "hold" -> [k \in 1..Len(hs) |-> <<"hold">> \o hs[k].id]
      [] entity_type = "item" -> [k \in 1..Len(its) |-> <<"item", "copy", its[k].id>>]
      [] entity_type = "bib" -> [k \in 1..c.bibs |-> <<"bib", "record", k>>]
      [] entity_type = "user" -> [k \in 1..Len(us) |-> <<"user">> \o us[k].id]
      [] entity_type = "inventory_scan" -> [k \in 1..Len(scans) |-> scans[k].id]
      [] OTHER -> <<>>

\* The if/elif chain: a drawn identifier of the type's list, cfg.org_code
\* when the list is empty or the type has no list.
entity_id_choices(entity_type, c, us, its, ls, hs, scans) ==
    LET pool == entity_ids(entity_type, c, us, its, ls, hs, scans)
    IN IF pool = <<>> THEN {c.org_code} ELSE Choice(pool)

audit_row(i, action, actor_user_id, entity_id) ==
    [id |-> <<"audit", i>>, actor_user_id |-> actor_user_id, action |-> action[1],
     entity_type |-> action[2], entity_id |-> entity_id]

\* The rows after events 1..i for every outcome of the draws; every pair of
\* actions is explored.
RECURSIVE audit_outcomes(_, _, _, _, _, _, _)
audit_outcomes(i, c, us, its, ls, hs, scans) ==
    IF i = 0 THEN {<<>>}
    ELSE UNION {UNION {{Append(prev, audit_row(i, action, actor, entity_id)) :
                          actor \in Choice(actor_pool),
                          entity_id \in entity_id_choices(action[2], c, us, its, ls, hs, scans)} :
                       action \in Range(actions)} :
                prev \in audit_outcomes(i - 1, c, us, its, ls, hs, scans)}

Generation == <<cfg, users, items, parts, loans, holds, active_hold_keys, termVars>>

\* 3.11 inventory_sessions / inventory_scans
Inventory ==
    /\ pc = "inventory"
    /\ \E o \in inventory_outcomes(items, cfg, n_sessions(cfg)) :
          /\ inventory_sessions_rows' = o.sessions
          /\ inventory_scans_rows' = o.scans
          /\ rng' = after_draws(n_sessions(cfg) >= 2 \/ o.scans # <<>>)
    /\ pc' = "audit"
    /\ UNCHANGED <<Generation, audit_rows, env, workdir, written, issued, diag, Others>>

\* 3.12 audit_events
AuditEvents ==
    /\ pc = "audit"
    /\ audit_rows' \in audit_outcomes(cfg.audit_events, cfg, users, items, loans, holds,
                                      inventory_scans_rows)
    /\ rng' = after_draws(cfg.audit_events >= 1)
    /\ pc' = "write_csv"
    /\ UNCHANGED <<Generation, inventory_sessions_rows, inventory_scans_rows,
                   env, workdir, written, issued, diag, Others>>

\* 4) the CSV files
WriteCsv ==
    /\ pc = "write_csv"
    /\ workdir' = workdir \cup ExportFiles
    /\ written' = written \cup ExportFiles
    /\ pc' = "load_sql"
    /\ UNCHANGED <<Generation, tailVars, env, issued, diag, rng, Others>>

\* 5) load.sql
WriteLoadSql ==
    /\ pc = "load_sql"
    /\ workdir' = workdir \cup {"load.sql"}
    /\ written' = written \cup {"load.sql"}
    /\ pc' = "schema"
    /\ UNCHANGED <<Generation, tailVars, env, issued, diag, rng, Others>>

\* 6) run_psql: CalledProcessError ends the run with "psql failed".
RunPsql(at, file, next) ==
    /\ pc = at
    /\ issued' = Append(issued, file)
    /\ \E ok \in BOOLEAN :
          IF ok THEN pc' = next /\ diag' = diag
          ELSE pc' = "aborted" /\ diag' = "psql failed"
    /\ UNCHANGED <<Generation, tailVars, env, workdir, written, rng, Others>>

RunSchema == RunPsql("schema", "schema.sql", "load")

RunLoad == RunPsql("load", "load.sql", "done")

(***************************************************************************)
(* main(): 3.5 records and their labels, 3.5.0 - 3.5.2 authority terms     *)
(* and relations                                                           *)
(***************************************************************************)
\* Records generated by a run of this part.
MaxTermBibs == 3

\* Largest k of text.geographic_terms(k) and text.genre_terms(k) explored;
\* text.subject_terms gets one more.
MaxLabelCount == 1

\* Names text.person_name() returns; the first is also a sentinel's creator.
PersonNames == <<"n1", "n5">>

\* The labels of the model in code point order, the order sorted() uses.
LabelOrder == <<" a", "a", "b", "c", "n1", "n2", "n3", "n4", "n5", "x", "x ", "z">>

sorted(S) == SelectSeq(LabelOrder, LAMBDA l : l \in S)

TermKinds == <<"subject", "name", "geographic", "genre">>

vocabulary_code(kind) == IF kind = "name" THEN "local" ELSE "builtin-zh"

\* uuid5(ns, f"{cfg.org_code}:authority:{kind}:{vocab}:{label}"): the name
\* that is hashed stands for the identifier.
term_id(kind, label) == <<"authority", kind, vocabulary_code(kind), label>>

\* a_id < b_id on the identifier strings: a fixed total order that has
\* nothing to do with the labels' order; the reverse label order here.
uuid_less(a_id, b_id) ==
    LET rank(id) == CHOOSE k \in 1..Len(LabelOrder) : LabelOrder[k] = id[4]
    IN rank(a_id) > rank(b_id)

\* dedupe_keep_order
dedupe_keep_order(values) ==
    LET F[i \in 0..Len(values)] ==
            IF i = 0 THEN <<>>
            ELSE LET st == strip(values[i])
                 IN IF st = "" \/ st \in Range(F[i - 1]) THEN F[i - 1]
                    ELSE Append(F[i - 1], st)
    IN F[Len(values)]

\* The literal labels of the two sentinel records: the second one repeats
\* the first subject, the first place and the second genre of the first.
sentinel_labels(i) ==
    IF i = sentinel_bib_index
    THEN [creators |-> <<"n1">>, contributors |-> <<"n2">>, subjects |-> <<"a", "b">>,
          geographics |-> <<"a", "b">>, genres |-> <<"a", "b">>]
    ELSE [creators |-> <<"n3">>, contributors |-> <<"n4">>, subjects |-> <<"a">>,
          geographics |-> <<"a">>, genres |-> <<"b">>]

\* text.subject_terms(k) / geographic_terms(k) / genre_terms(k): rng.sample
\* of the list with k clamped; r picks the rotation that is explored.
text_terms(list, k, least, r) ==
    LET n == Max(least, Min(k, Len(list)))
    IN IF n = 0 THEN <<>>
       ELSE Slice(Rotate(list, Min(r, Max(Len(list) - 1, 0))), 0, n)

\* The draws of one non-sentinel record that are explored: r turns the
\* samples and the names, k is the number of places and genres.
RecordDraws(v) ==
    {[creators |-> IF k = 0 THEN <<PersonNames[(r % Len(PersonNames)) + 1]>>
                   ELSE <<PersonNames[(r % Len(PersonNames)) + 1], PersonNames[1]>>,
      contributors |-> IF k = 0 THEN <<>> ELSE <<PersonNames[Len(PersonNames)]>>,
      subjects |-> text_terms(v["subject"].labels, k + 1, 1, r),
      geographics |-> text_terms(v["geographic"].assigned, k, 0, r),
      genres |-> text_terms(v["genre"].assigned, k, 0, r)] :
        r \in 0..MaxSampleRotation, k \in 0..MaxLabelCount}

\* The record rows of the loop; draw_of[i] holds the draws of record i.
bib_rows(c, draw_of) ==
    [i \in 1..c.bibs |->
        LET raw == IF i \in {sentinel_bib_index, sentinel_unavailable_bib_index}
                   THEN sentinel_labels(i) ELSE draw_of[i]
        IN [id |-> i,
            creators |-> dedupe_keep_order(raw.creators),
            contributors |-> dedupe_keep_order(raw.contributors),
            subjects |-> raw.subjects,
            geographics |-> dedupe_keep_order(raw.geographics),
            genres |-> dedupe_keep_order(raw.genres)]]

\* The rows a record list adds to one junction table: one per label, with
\* its position.
link_rows(bib, kind, labels, role) ==
    [pos \in 1..Len(labels) |->
        [bibliographic_id |-> bib.id, role |-> role, term_id |-> term_id(kind, labels[pos]),
         position |-> pos]]

term_links(rows) ==
    LET F[i \in 0..Len(rows)] ==
            IF i = 0 THEN NoLinks
            ELSE [subject |-> F[i - 1].subject
                                \o link_rows(rows[i], "subject", rows[i].subjects, ""),
                  name |-> F[i - 1].name
                             \o link_rows(rows[i], "name", rows[i].creators, "creator")
                             \o link_rows(rows[i], "name", rows[i].contributors, "contributor"),
                  geographic |-> F[i - 1].geographic
                                   \o link_rows(rows[i], "geographic", rows[i].geographics, ""),
                  genre |-> F[i - 1].genre
                              \o link_rows(rows[i], "genre", rows[i].genres, "")]
    IN F[Len(rows)]

\* authority_*_terms.add(..) in the loop.
referenced_labels(rows) ==
    [subject |-> UNION {Range(rows[i].subjects) : i \in 1..Len(rows)},
     name |-> UNION {Range(rows[i].creators) \cup Range(rows[i].contributors) :
                        i \in 1..Len(rows)},
     geographic |-> UNION {Range(rows[i].geographics) : i \in 1..Len(rows)},
     genre |-> UNION {Range(rows[i].genres) : i \in 1..Len(rows)}]

builtin_vocab_skipped(sets, v) == sets

\* 3.5.0: authority_*_terms.update(the full list of the kind)
builtin_vocab(sets, v) ==
    [kind \in DOMAIN sets |->
        IF kind = "name" THEN sets[kind] ELSE sets[kind] \cup Range(v[kind].labels)]

\* mapping.get(term): the variants of a label, none for a missing key.
variants_get(mapping, term) ==
    IF \E i \in 1..Len(mapping) : mapping[i][1] = term
    THEN mapping[CHOOSE i \in 1..Len(mapping) : mapping[i][1] = term][2]
    ELSE <<>>

\* 3.5.1: the term rows of one kind, in sorted order of the labels.
term_rows(kind, labels, v) ==
    LET ordered == sorted(labels)
    IN [n \in 1..Len(ordered) |->
          [id |-> term_id(kind, ordered[n]), kind |-> kind,
           vocabulary_code |-> vocabulary_code(kind), preferred_label |-> ordered[n],
           variant_labels |-> IF kind = "name" THEN <<>>
                              ELSE variants_get(v[kind].variants, ordered[n])]]

build_terms(sets, v) ==
    term_rows("subject", sets["subject"], v) \o term_rows("name", sets["name"], v)
        \o term_rows("geographic", sets["geographic"], v)
        \o term_rows("genre", sets["genre"], v)

\* if key in rel_keys: return
rel_key_taken_never(keys, key) == FALSE

rel_key_taken(keys, key) == key \in keys

relation_row(from_id, relation_type, to_id) ==
    [id |-> <<"relation", from_id, relation_type, to_id>>, from_term_id |-> from_id,
     relation_type |-> relation_type, to_term_id |-> to_id]

\* The checks both try_add_ functions start with.
skip_edge(kind, a_label, b_label, sets) ==
    \/ a_label = "" \/ b_label = ""
    \/ a_label = b_label
    \/ kind \in {"subject", "geographic", "genre"}
          /\ (a_label \notin sets[kind] \/ b_label \notin sets[kind])

\* acc is [rows, keys]: authority_relations and rel_keys.
try_add_broader(kind, narrower_label, broader_label, sets, acc) ==
    IF skip_edge(kind, narrower_label, broader_label, sets) THEN acc
    ELSE LET from_id == term_id(kind, narrower_label)
             to_id == term_id(kind, broader_label)
             key == <<from_id, "broader", to_id>>
         IN IF rel_key_taken(acc.keys, key) THEN acc
            ELSE [rows |-> Append(acc.rows, relation_row(from_id, "broader", to_id)),
                  keys |-> acc.keys \cup {key}]

try_add_related(kind, a_label, b_label, sets, acc) ==
    IF skip_edge(kind, a_label, b_label, sets) THEN acc
    ELSE LET a_id == term_id(kind, a_label)
             b_id == term_id(kind, b_label)
             from_id == IF uuid_less(a_id, b_id) THEN a_id ELSE b_id
             to_id == IF uuid_less(a_id, b_id) THEN b_id ELSE a_id
             key == <<from_id, "related", to_id>>
         IN IF rel_key_taken(acc.keys, key) THEN acc
            ELSE [rows |-> Append(acc.rows, relation_row(from_id, "related", to_id)),
                  keys |-> acc.keys \cup {key}]

\* The two loops over the edges of one kind.
RECURSIVE edges_of_kind(_, _, _, _, _, _)
edges_of_kind(kind, edges, i, related, sets, acc) ==
    IF i > Len(edges) THEN acc
    ELSE edges_of_kind(kind, edges, i + 1, related, sets,
            IF related THEN try_add_related(kind, edges[i][1], edges[i][2], sets, acc)
            ELSE try_add_broader(kind, edges[i][1], edges[i][2], sets, acc))

\* 3.5.2: subjects, geographics, genres; broader edges, then related ones.
RECURSIVE build_relations(_, _, _, _)
build_relations(v, k, sets, acc) ==
    IF k > Len(Kinds) THEN acc
    ELSE LET kind == Kinds[k]
             b == edges_of_kind(kind, v[kind].broader_edges, 1, FALSE, sets, acc)
         IN build_relations(v, k + 1, sets,
                            edges_of_kind(kind, v[kind].related_edges, 1, TRUE, sets, b))

\* Tables of one kind that pass or fail validate_rules_vocab: an edge listed
\* twice and a related pair listed in both directions, a label with a
\* trailing blank, a list without the sentinels' first label, and a cycle.
TermKindTables ==
    {GoodKind,
     [GoodKind EXCEPT !.broader_edges = << <<"a", "b">>, <<"a", "b">>, <<"b", "c">> >>,
                      !.related_edges = << <<"a", "c">>, <<"c", "a">> >>],
     [GoodKind EXCEPT !.labels = <<"a", "b", "c", "x ">>, !.variants = <<>>,
                      !.broader_edges = << <<"a", "b">>, <<"x", "c">> >>],
     [labels |-> <<"b", "c", "z">>, assigned |-> <<"c", "b">>, variants |-> <<>>,
      broader_edges |-> << <<"b", "c">>, <<"z", "c">> >>, related_edges |-> << <<"z", "b">> >>],
     [GoodKind EXCEPT !.broader_edges = << <<"a", "b">>, <<"b", "c">>, <<"c", "a">> >>]}

TermVocabs == {[GoodVocab EXCEPT ![k] = t] : k \in Range(Kinds), t \in TermKindTables}

TermConfigs == {[BaseConfig EXCEPT !.bibs = b] : b \in 0..MaxTermBibs}

\* main() at the records loop: the configuration is loaded, the vocabulary
\* has passed validate_rules_vocab and the users are generated.
InitAuthority ==
    /\ pc = "bibs"
    /\ cfg \in TermConfigs
    /\ env = cfg
    /\ vocab \in {v \in TermVocabs : ~validate_rules_vocab(v).abort}
    /\ vpc = "idle"
    /\ verdict = validate_rules_vocab(vocab)
    /\ users = build_users(cfg)
    /\ items = <<>>
    /\ parts = NoParts
    /\ loans = <<>>
    /\ holds = <<>>
    /\ active_hold_keys = {}
    /\ workdir = {}
    /\ written = {}
    /\ issued = <<>>
    /\ diag = ""
    /\ rng = "seeded"
    /\ TailIdle /\ TermIdle
    /\ ClockIdle /\ LoadIdle

NotTerms == <<cfg, users, items, parts, loans, holds, active_hold_keys, mainVars, tailVars,
              Others>>

\* 3.5: the loop over the records
GenerateBibs ==
    /\ pc = "bibs"
    /\ \E draw_of \in [(1..cfg.bibs) \ {sentinel_bib_index, sentinel_unavailable_bib_index}
                          -> RecordDraws(vocab)] :
          LET rows == bib_rows(cfg, draw_of)
          IN /\ bibs' = rows
             /\ bib_term_rows' = term_links(rows)
             /\ authority_sets' = referenced_labels(rows)
    /\ pc' = "builtin_vocab"
    /\ UNCHANGED <<authority_terms, authority_relations, NotTerms>>

\* 3.5.0: the built-in vocabulary joins the sets
BuiltinVocab ==
    /\ pc = "builtin_vocab"
    /\ authority_sets' = builtin_vocab(authority_sets, vocab)
    /\ pc' = "authority_terms"
    /\ UNCHANGED <<bibs, bib_term_rows, authority_terms, authority_relations, NotTerms>>

\* 3.5.1 authority_terms
AuthorityTerms ==
    /\ pc = "authority_terms"
    /\ authority_terms' = build_terms(authority_sets, vocab)
    /\ pc' = "authority_relations"
    /\ UNCHANGED <<bibs, bib_term_rows, authority_sets, authority_relations, NotTerms>>

\* 3.5.2 authority_term_relations
AuthorityRelations ==
    /\ pc = "authority_relations"
    /\ authority_relations' =
          build_relations(vocab, 1, authority_sets, [rows |-> <<>>, keys |-> {}]).rows
    /\ pc' = "items"
    /\ UNCHANGED <<bibs, bib_term_rows, authority_sets, authority_terms, NotTerms>>

NextAuthority ==
    \/ GenerateBibs
    \/ BuiltinVocab
    \/ AuthorityTerms
    \/ AuthorityRelations

SpecAuthority == InitAuthority /\ [][NextAuthority]_vars

Next ==
    \/ GenerateUsers
    \/ GenerateItems
    \/ OpenLoansTooLarge
    \/ AssignStatus
    \/ OpenLoans
    \/ ClosedLoans
    \/ ClosedLoansCrash
    \/ ReadyHolds
    \/ QueuedHolds
    \/ QueuedHoldsCrash

Spec == Init /\ [][Next]_vars

NextMain ==
    \/ LoadConfig
    \/ ResetWorkdir
    \/ MakeTextProvider
    \/ ValidateVocab
    \/ Next
    \/ Inventory
    \/ AuditEvents
    \/ WriteCsv
    \/ WriteLoadSql
    \/ RunSchema
    \/ RunLoad

SpecMain == InitMain /\ [][NextMain]_vars

(***************************************************************************)
(* Claims about one run                                                    *)
(***************************************************************************)
\* The loans and the holds are complete: main() is at 3.11.
Generated == pc = "inventory"

Copies == 1..Len(items)

OpenLoansOf(k) == {i \in 1..Len(loans) : loans[i].status = "open" /\ loans[i].item_id = items[k].id}

CopiesOfBib(b) == {k \in Copies : items[k].bibliographic_id = b}

SentinelCopies == CopiesOfBib(sentinel_bib_index) \cup CopiesOfBib(sentinel_unavailable_bib_index)

\* C1: in a generated dataset a copy is checked_out exactly when one open
\* loan references it, and no copy has more than one open loan.
C1_OneOpenLoanPerCopy ==
    Generated =>
        \A k \in Copies :
            /\ (items[k].status = "checked_out") <=> (Cardinality(OpenLoansOf(k)) = 1)
            /\ Cardinality(OpenLoansOf(k)) <= 1

\* A copy checked out by the random partition and the forced sentinel copy,
\* each with its open loan, and a closed loan beside them.
C1_Witness ==
    /\ Generated
    /\ \E k \in Copies \ SentinelCopies : items[k].status = "checked_out"
    /\ \E k \in SentinelCopies : items[k].status = "checked_out"
    /\ \E i \in 1..Len(loans) : loans[i].status = "closed"

\* C2: at most one hold, ready or queued, per (person, record).
C2_OneActiveHoldPerPersonRecord ==
    Generated =>
        \A i, j \in 1..Len(holds) :
            (/\ i # j
             /\ holds[i].status \in {"queued", "ready"}
             /\ holds[j].status \in {"queued", "ready"})
            => <<holds[i].user_id, holds[i].bibliographic_id>>
                   # <<holds[j].user_id, holds[j].bibliographic_id>>

\* A draw was skipped because its key was taken: fewer queued holds than
\* configured, next to a ready hold.
C2_Witness ==
    /\ Generated
    /\ cfg.queued_holds = 2
    /\ Cardinality({i \in 1..Len(holds) : holds[i].status = "queued"}) < 2
    /\ \E i \in 1..Len(holds) : holds[i].status = "ready"

\* C4: with two or more records, the first record has one copy and it is
\* available, the second has one copy and it is checked_out.
C4_SentinelStatus ==
    (Generated /\ cfg.bibs >= 2) =>
        /\ \E k \in Copies : CopiesOfBib(sentinel_bib_index) = {k}
                             /\ items[k].status = "available"
        /\ \E k \in Copies : CopiesOfBib(sentinel_unavailable_bib_index) = {k}
                             /\ items[k].status = "checked_out"

\* A run in which the random partition assigned every other status too.
C4_Witness ==
    /\ Generated
    /\ cfg.bibs >= 2
    /\ {"lost", "repair", "withdrawn", "checked_out", "on_hold"}
           \subseteq {items[k].status : k \in Copies \ SentinelCopies}

\* C5 (as claimed): apart from the forced open loan on the second sentinel
\* copy, no loan and no hold references a sentinel copy.
C5_SentinelNeverDrawn ==
    Generated =>
        /\ \A i \in 1..Len(loans) :
              loans[i].item_id \in {items[k].id : k \in SentinelCopies}
                  => /\ loans[i].status = "open"
                     /\ loans[i].item_id
                            \in {items[k].id : k \in CopiesOfBib(sentinel_unavailable_bib_index)}
        /\ \A i \in 1..Len(holds) :
              holds[i].assigned_item_id \notin {items[k].id : k \in SentinelCopies}

\* C6 (as claimed): the scenario ends with 3 checked_out copies and 3 open
\* loans, 2 on_hold copies each with one ready hold, and both sentinel records
\* with one copy.
C6_Scenario ==
    (Generated /\ cfg = ScenarioConfig) =>
        /\ Cardinality({k \in Copies : items[k].status = "checked_out"}) = 3
        /\ Cardinality({i \in 1..Len(loans) : loans[i].status = "open"}) = 3
        /\ \A k \in Copies : items[k].status = "checked_out" => Cardinality(OpenLoansOf(k)) = 1
        /\ Cardinality({k \in Copies : items[k].status = "on_hold"}) = 2
        /\ \A k \in Copies :
              items[k].status = "on_hold" =>
                  Cardinality({i \in 1..Len(holds) :
                                  holds[i].status = "ready"
                                  /\ holds[i].assigned_item_id = items[k].id}) = 1
        /\ Cardinality(CopiesOfBib(sentinel_bib_index)) = 1
        /\ Cardinality(CopiesOfBib(sentinel_unavailable_bib_index)) = 1

\* The four people who can log in.
LoginPeople == {admin_id, librarian_id, teacher_login_id, student_login_id}

\* C15 (as claimed): no loan and no hold of the random allocation has one of
\* the four login people as its person.
C15_LoginPeopleExcluded ==
    Generated =>
        /\ \A i \in 1..Len(loans) : loans[i].user_id \notin LoginPeople
        /\ \A i \in 1..Len(holds) : holds[i].user_id \notin LoginPeople

\* C16 (as claimed): no queued hold is placed on the first or on the second
\* catalog record.
C16_QueuedHoldsOffSentinels ==
    Generated =>
        \A i \in 1..Len(holds) :
            holds[i].status = "queued" =>
                holds[i].bibliographic_id
                    \notin {sentinel_bib_index, sentinel_unavailable_bib_index}

ReadyHoldRows == {i \in 1..Len(holds) : holds[i].status = "ready"}

QueuedHoldRows == {i \in 1..Len(holds) : holds[i].status = "queued"}

\* C17: a ready hold has an assigned copy that is on_hold and belongs to
\* the hold's record, no copy is assigned to two ready holds, and a queued
\* hold has no assigned copy.
C17_ReadyHoldsAssigned ==
    Generated =>
        /\ \A i \in ReadyHoldRows :
              \E k \in Copies : /\ items[k].id = holds[i].assigned_item_id
                                /\ items[k].status = "on_hold"
                                /\ items[k].bibliographic_id = holds[i].bibliographic_id
        /\ \A i, j \in ReadyHoldRows :
              i # j => holds[i].assigned_item_id # holds[j].assigned_item_id
        /\ \A i \in QueuedHoldRows : holds[i].assigned_item_id = 0

\* Two ready holds on two copies and a queued hold beside them.
C17_Witness ==
    /\ Generated
    /\ Cardinality(ReadyHoldRows) = 2
    /\ QueuedHoldRows # {}

\* C18 (as claimed): every copy that is on_hold has exactly one ready hold
\* assigned to it.
C18_OnHoldHasReadyHold ==
    Generated =>
        \A k \in Copies :
            items[k].status = "on_hold" =>
                Cardinality({i \in ReadyHoldRows : holds[i].assigned_item_id = items[k].id}) = 1

(***************************************************************************)
(* Claims about a whole run                                                *)
(***************************************************************************)
NoEntities ==
    /\ users = <<>> /\ items = <<>> /\ loans = <<>> /\ holds = <<>>
    /\ inventory_sessions_rows = <<>> /\ inventory_scans_rows = <<>> /\ audit_rows = <<>>

NoOutput == written = {} /\ issued = <<>>

\* Every table of every kind passes each check of the validation.
VocabValid == \A k \in 1..Len(Kinds) : ~validate_kind(Kinds[k], vocab[Kinds[k]]).abort

\* C11: entities exist only after the validation of all three kinds has
\* completed, and a failed validation ends the run with no entity, no export
\* file and no datastore statement.
C11_ValidationFirst ==
    /\ ~NoEntities => (VocabValid /\ ~verdict.abort /\ verdict.kinds_done = Len(Kinds))
    /\ verdict.abort => (pc = "aborted" /\ NoEntities /\ NoOutput)
    /\ (env.text_provider = "rules" /\ ~VocabValid) =>
           (/\ pc \in {"config", "workdir", "provider", "validate", "aborted"}
            /\ NoEntities /\ NoOutput)

\* The first two kinds passed, the third one failed, and the run ended.
C11_Witness ==
    /\ pc = "aborted"
    /\ verdict.abort
    /\ verdict.kinds_done = 2
    /\ NoEntities /\ NoOutput

\* The settings are in their declared ranges.
ValidSettings(e) ==
    /\ ORG_CODE_RE(e.org_code)
    /\ e.text_provider \in {"rules", "hf"}
    /\ \A n \in Range(PositiveBefore) \cup Range(PositiveAfter) : e[n] >= 0
    /\ e.max_copies_per_bib \in 1..10

PreconditionDiags ==
    {"org_code", "text_provider", "max_copies_per_bib", "no active borrowers"}
        \cup Range(PositiveBefore) \cup Range(PositiveAfter)

\* C12: a setting out of range, more open loans than copies or an empty
\* borrower pool ends the run before any export file is written and before
\* any datastore statement is issued.
C12_PreconditionAborts ==
    /\ ~ValidSettings(env) => (pc \in {"config", "aborted"} /\ NoEntities /\ NoOutput)
    /\ (pc = "aborted" /\ diag \in PreconditionDiags) => NoOutput
    /\ ~NoOutput => (/\ cfg.open_loans <= Len(items)
                     /\ borrowers_active(users) # <<>>)

\* More open loans than copies: users and copies were generated in memory,
\* nothing was written.
C12_Witness ==
    /\ pc = "aborted"
    /\ diag = "open_loans"
    /\ ValidSettings(env)
    /\ cfg.open_loans > Len(items)
    /\ items # <<>>
    /\ NoOutput

\* C13 (as claimed): a run whose settings load_config accepts and whose
\* open loans fit the copies never ends in an exception of the generation.
C13_AcceptedConfigsComplete ==
    ~(pc = "crashed" /\ cfg.text_provider = "rules")

\* C14: with the hf provider the run ends when the provider is constructed:
\* no random draw, no entity, no export file, no datastore statement.
C14_HfFailsAtConstruction ==
    (ValidSettings(env) /\ env.text_provider = "hf") =>
        /\ pc \in {"config", "workdir", "provider", "crashed"}
        /\ rng # "drawn"
        /\ verdict = NotValidated
        /\ NoEntities /\ NoOutput
        /\ pc = "crashed" => diag = "RuntimeError"

\* The run ended at the constructor, the generator seeded but unused.
C14_Witness ==
    /\ pc = "crashed"
    /\ cfg.text_provider = "hf"
    /\ diag = "RuntimeError"
    /\ rng = "seeded"
    /\ workdir = {}


SessionOf(scan) ==
    CHOOSE k \in 1..Len(inventory_sessions_rows) :
        inventory_sessions_rows[k].id = scan.session_id

\* C19: no two scan rows share a (session, copy) pair, and a scan row has
\* the location of its session.
C19_OneScanPerSessionCopy ==
    /\ \A i, j \in 1..Len(inventory_scans_rows) :
          i # j => <<inventory_scans_rows[i].session_id, inventory_scans_rows[i].item_id>>
                       # <<inventory_scans_rows[j].session_id, inventory_scans_rows[j].item_id>>
    /\ \A i \in 1..Len(inventory_scans_rows) :
          /\ \E k \in 1..Len(inventory_sessions_rows) :
                inventory_sessions_rows[k].id = inventory_scans_rows[i].session_id
          /\ inventory_scans_rows[i].location_id
                 = inventory_sessions_rows[SessionOf(inventory_scans_rows[i])].location_id

\* Two sessions scanned the same copy, and one scan is of a copy that is
\* shelved at another location than its session's.
C19_Witness ==
    /\ pc = "done"
    /\ Len(inventory_sessions_rows) >= 2
    /\ \E i, j \in 1..Len(inventory_scans_rows) :
          /\ inventory_scans_rows[i].session_id # inventory_scans_rows[j].session_id
          /\ inventory_scans_rows[i].item_id = inventory_scans_rows[j].item_id
    /\ \E i \in 1..Len(inventory_scans_rows), k \in 1..Len(items) :
          /\ items[k].id = inventory_scans_rows[i].item_id
          /\ items[k].location_id # inventory_scans_rows[i].location_id

\* C20 (as claimed): the entity identifier of an audit event is the
\* identifier of a generated entity of the event's entity type.
C20_AuditReferencesEntity ==
    \A i \in 1..Len(audit_rows) :
        audit_rows[i].entity_id
            \in Range(entity_ids(audit_rows[i].entity_type, cfg, users, items, loans, holds,
                                 inventory_scans_rows))

(***************************************************************************)
(* Claims about the status partition and the quotas                        *)
(***************************************************************************)
\* 3.7 is over: the statuses are assigned.
StatusAssigned ==
    pc \in {"open_loans", "closed_loans", "ready_holds", "queued_holds", "inventory", "crashed"}

\* 3.9's open loans are generated.
OpenLoansGenerated ==
    pc \in {"closed_loans", "ready_holds", "queued_holds", "inventory", "crashed"}

PartitionSets ==
    <<parts.lost_idx, parts.repair_idx, parts.withdrawn_idx, parts.open_loan_idx,
      parts.ready_hold_idx>>

PartitionStatus == <<"lost", "repair", "withdrawn", "checked_out", "on_hold">>

PositionIn(seq, x) == CHOOSE k \in 1..Len(seq) : seq[k] = x

WithStatus(st) == {k \in 1..Len(items) : items[k].status = st}

OpenLoanRows == SelectSeq(loans, LAMBDA l : l.status = "open")

\* C22: once the statuses are assigned, the index sets for lost, repair,
\* withdrawn, open-loan and ready-hold are pairwise disjoint and hold no
\* sentinel copy; idx_all is one arrangement of the non-sentinel indexes and
\* the sets are consecutive stretches of it in that order, starting at its
\* head; every copy has the status of its set, the forced sentinel copy is
\* checked_out, and every other copy is available.
C22_StatusPartition ==
    StatusAssigned =>
        LET sentinels == sentinel_item_indexes(items)
            taken == UNION {PartitionSets[a] : a \in 1..5}
        IN /\ \A a \in 1..5, b \in 1..5 : a < b => PartitionSets[a] \cap PartitionSets[b] = {}
           /\ taken \cap sentinels = {}
           /\ Range(parts.idx_all) = (1..Len(items)) \ sentinels
           /\ Len(parts.idx_all) = Cardinality((1..Len(items)) \ sentinels)
           /\ \A a \in 1..5, b \in 1..5 :
                 a < b => \A x \in PartitionSets[a], y \in PartitionSets[b] :
                             PositionIn(parts.idx_all, x) < PositionIn(parts.idx_all, y)
           /\ \A x \in taken :
                 \A k \in 1..PositionIn(parts.idx_all, x) : parts.idx_all[k] \in taken
           /\ \A k \in 1..Len(items) :
                 items[k].status =
                    IF k \in forced_checked_out_indexes(items) THEN "checked_out"
                    ELSE IF \E a \in 1..5 : k \in PartitionSets[a]
                         THEN PartitionStatus[CHOOSE a \in 1..5 : k \in PartitionSets[a]]
                         ELSE "available"

\* The five sets are all inhabited and some copy outside them stays available.
C22_Witness ==
    /\ StatusAssigned
    /\ \A a \in 1..5 : PartitionSets[a] # {}
    /\ WithStatus("available") \ sentinel_item_indexes(items) # {}

\* C23: in a generated dataset whose open-loan count does not exceed the
\* number of copies, the open loans and the checked_out copies number
\* cfg.open_loans, the ready holds and the on_hold copies cfg.ready_holds.
C23_QuotasMet ==
    (Generated /\ cfg.open_loans <= Len(items)) =>
        /\ Len(OpenLoanRows) = cfg.open_loans
        /\ Cardinality(WithStatus("checked_out")) = cfg.open_loans
        /\ Len(SelectSeq(holds, LAMBDA h : h.status = "ready")) = cfg.ready_holds
        /\ Cardinality(WithStatus("on_hold")) = cfg.ready_holds

\* C24: with cfg.open_loans = 0 and at least two records, the only
\* checked_out copy is the copy of the second sentinel record, and the only
\* open loan is the loan of that copy.
C24_ForcedLoanWithoutQuota ==
    (OpenLoansGenerated /\ cfg.open_loans = 0 /\ cfg.bibs >= 2) =>
        /\ WithStatus("checked_out") = forced_checked_out_indexes(items)
        /\ Cardinality(WithStatus("checked_out")) = 1
        /\ \A k \in WithStatus("checked_out") :
              /\ items[k].bibliographic_id = sentinel_unavailable_bib_index
              /\ CopiesOfBib(sentinel_unavailable_bib_index) = {k}
        /\ Len(OpenLoanRows) = 1
        /\ \A n \in 1..Len(OpenLoanRows) :
              OpenLoanRows[n].item_id \in {items[k].id : k \in WithStatus("checked_out")}

\* A dataset with records beside the sentinels and a quota of zero.
C24_Witness ==
    /\ Generated
    /\ cfg.open_loans = 0
    /\ cfg.bibs > 2
    /\ Len(OpenLoanRows) = 1

\* 3.11 is over.
InventoryGenerated == pc \in {"audit", "write_csv", "load_sql", "schema", "load", "done"}

ScannedIn(session) ==
    {inventory_scans_rows[n].item_id :
        n \in {m \in 1..Len(inventory_scans_rows) :
                  inventory_scans_rows[m].session_id = session.id}}

AvailableAt(location_id) ==
    {items[k].id : k \in {j \in 1..Len(items) :
                             items[j].status = "available" /\ items[j].location_id = location_id}}

\* C25: every inventory session whose location has an available copy leaves
\* an available copy of that location un-scanned.
C25_SomeCopyUnscanned ==
    InventoryGenerated =>
        \A n \in 1..Len(inventory_sessions_rows) :
            LET session == inventory_sessions_rows[n]
            IN AvailableAt(session.location_id) # {} =>
                  AvailableAt(session.location_id) \ ScannedIn(session) # {}

(***************************************************************************)
(* Referential closure of the generated rows                               *)
(***************************************************************************)
IdsOf(rows) == {rows[k].id : k \in 1..Len(rows)}

DistinctIds(rows) == \A i \in 1..Len(rows), j \in 1..Len(rows) : i # j => rows[i].id # rows[j].id

ActiveLocationIds == {locations[k].id : k \in {j \in 1..Len(locations) : locations[j].status = "active"}}

\* C30: every loan references a generated copy and person, every hold a
\* generated record, person and location, every copy a generated record and
\* one of the four active locations, every scan a generated session and
\* copy, every credential row a generated person, and the identifiers of
\* the users, copies, loans, holds, sessions and scans are distinct.
C30_ReferentiallyClosed ==
    /\ \A k \in 1..Len(loans) :
          loans[k].item_id \in IdsOf(items) /\ loans[k].user_id \in IdsOf(users)
    /\ \A k \in 1..Len(holds) :
          /\ holds[k].bibliographic_id \in 1..cfg.bibs
          /\ holds[k].user_id \in IdsOf(users)
          /\ holds[k].pickup_location_id \in IdsOf(locations)
    /\ \A k \in 1..Len(items) :
          /\ items[k].bibliographic_id \in 1..cfg.bibs
          /\ items[k].location_id \in ActiveLocationIds
          /\ items[k].location_id # loc_closed
    /\ Cardinality(ActiveLocationIds) = 4
    /\ \A k \in 1..Len(inventory_scans_rows) :
          /\ inventory_scans_rows[k].session_id \in IdsOf(inventory_sessions_rows)
          /\ inventory_scans_rows[k].item_id \in IdsOf(items)
    /\ users # <<>> => \A k \in 1..Len(credentials_rows) : credentials_rows[k] \in IdsOf(users)
    /\ DistinctIds(users) /\ DistinctIds(items) /\ DistinctIds(loans) /\ DistinctIds(holds)
    /\ DistinctIds(inventory_sessions_rows) /\ DistinctIds(inventory_scans_rows)

\* A finished run whose student loop passed the number of the login account
\* and that has loans, holds and scans.
C30_Witness ==
    /\ pc = "done"
    /\ cfg.students >= LoginStudentNumber
    /\ Len(loans) >= 2 /\ holds # <<>> /\ inventory_scans_rows # <<>>
    /\ \E k \in 1..Len(users) : users[k].id = <<"S", 1130000 + LoginStudentNumber - 1>>

(***************************************************************************)
(* Claims about the authority terms and their relations                    *)
(***************************************************************************)
TermsOfKind(kind) ==
    {n \in 1..Len(authority_terms) : authority_terms[n].kind = kind}

LabelsOfKind(kind) == {authority_terms[n].preferred_label : n \in TermsOfKind(kind)}

\* The labels the record rows carry in the arrays of a kind.
ReferencedBy(kind) ==
    CASE kind = "subject" -> UNION {Range(bibs[i].subjects) : i \in 1..Len(bibs)}
      [] kind = "geographic" -> UNION {Range(bibs[i].geographics) : i \in 1..Len(bibs)}
      [] kind = "genre" -> UNION {Range(bibs[i].genres) : i \in 1..Len(bibs)}
      [] OTHER -> UNION {Range(bibs[i].creators) \cup Range(bibs[i].contributors) :
                            i \in 1..Len(bibs)}

\* C21: the emitted terms of a kind are the labels the records reference
\* together with the whole built-in list of the kind; every built-in label is
\* the label of exactly one term of its kind; no two terms of a kind share a
\* label; every row of a junction table references an emitted term of the
\* table's kind.
C21_TermsAreUnion ==
    pc \in {"authority_relations", "items"} =>
        /\ \A k \in 1..Len(Kinds) :
              /\ LabelsOfKind(Kinds[k]) = ReferencedBy(Kinds[k]) \cup Range(vocab[Kinds[k]].labels)
              /\ \A l \in Range(vocab[Kinds[k]].labels) :
                    Cardinality({n \in TermsOfKind(Kinds[k]) :
                                    authority_terms[n].preferred_label = l}) = 1
        /\ LabelsOfKind("name") = ReferencedBy("name")
        /\ \A n \in 1..Len(authority_terms), m \in 1..Len(authority_terms) :
              (n # m /\ authority_terms[n].kind = authority_terms[m].kind)
                 => authority_terms[n].preferred_label # authority_terms[m].preferred_label
        /\ \A k \in 1..Len(TermKinds) :
              \A r \in 1..Len(bib_term_rows[TermKinds[k]]) :
                 \E n \in TermsOfKind(TermKinds[k]) :
                    authority_terms[n].id = bib_term_rows[TermKinds[k]][r].term_id

\* Terms are emitted for a built-in label no record references and for a
\* referenced label the built-in list does not have.
C21_Witness ==
    /\ pc = "items"
    /\ \E k \in 1..Len(Kinds) :
          /\ Range(vocab[Kinds[k]].labels) \ ReferencedBy(Kinds[k]) # {}
          /\ ReferencedBy(Kinds[k]) \ Range(vocab[Kinds[k]].labels) # {}
    /\ Len(bibs) > 2

BroaderOfKind(kind) ==
    {<<authority_relations[n].from_term_id, authority_relations[n].to_term_id>> :
        n \in {m \in 1..Len(authority_relations) :
                  /\ authority_relations[m].relation_type = "broader"
                  /\ authority_relations[m].from_term_id[2] = kind}}

\* Some term reaches itself along one or more edges of E.
TermCycle(E) ==
    LET N == {e[1] : e \in E} \cup {e[2] : e \in E}
        R[k \in 0..Cardinality(N)] ==
            IF k = 0 THEN E
            ELSE R[k - 1] \cup {p \in N \X N :
                                  \E m \in N : <<p[1], m>> \in R[k - 1] /\ <<m, p[2]>> \in E}
    IN \E n \in N : <<n, n>> \in R[Cardinality(N)]

\* C27: the emitted broader relations of a kind have no cycle; both ends of
\* every emitted relation are emitted terms of one kind; no (from, type, to)
\* is emitted twice.
C27_RelationsWellFormed ==
    pc = "items" =>
        /\ \A k \in 1..Len(Kinds) : ~TermCycle(BroaderOfKind(Kinds[k]))
        /\ \A n \in 1..Len(authority_relations) :
              \E a \in 1..Len(authority_terms), b \in 1..Len(authority_terms) :
                 /\ authority_terms[a].id = authority_relations[n].from_term_id
                 /\ authority_terms[b].id = authority_relations[n].to_term_id
                 /\ authority_terms[a].kind = authority_terms[b].kind
        /\ \A n \in 1..Len(authority_relations), m \in 1..Len(authority_relations) :
              n # m => <<authority_relations[n].from_term_id,
                         authority_relations[n].relation_type,
                         authority_relations[n].to_term_id>>
                       # <<authority_relations[m].from_term_id,
                           authority_relations[m].relation_type,
                           authority_relations[m].to_term_id>>

\* A vocabulary that lists an edge twice ends with one row for it.
C27_Witness ==
    /\ pc = "items"
    /\ \E k \in 1..Len(Kinds) :
          /\ Len(vocab[Kinds[k]].broader_edges) > Cardinality(Range(vocab[Kinds[k]].broader_edges))
          /\ Cardinality(BroaderOfKind(Kinds[k])) = 2
    /\ Len(authority_relations) >= 8

(***************************************************************************)
(* Two runs of main() with one seed: the timestamps                        *)
(***************************************************************************)
\* Largest day the wall clock reaches.
MaxClock == 2
\* Largest number of days a randint() draw moves a timestamp.
MaxDaysBack == 2
\* Copies and open loans generated by each run.
MaxClockItems == 1
MaxClockLoans == 1
\* Closed loans generated by each run (cfg.closed_loans).
MaxClockClosed == 1

pg_null == "\\N"

NoDatetime == [none |-> TRUE, day |-> 0]

Datetime(d) == [none |-> FALSE, day |-> d]

\* now_utc(): the wall clock at the moment of the call.
now_utc == Datetime(clock)

\* value - dt.timedelta(days = n)
minus_days(value, n) == Datetime(value.day - n)

plus_days(value, n) == Datetime(value.day + n)

\* iso(): the NULL marker for None, the text of the value otherwise.
iso(dt_value) == IF dt_value.none THEN pg_null ELSE ToString(dt_value.day)

\* What random.Random(seed) returns at each call is fixed by the seed: one
\* record per loop iteration, shared by both runs.
ItemDraws == [acquired_days : 0..MaxDaysBack, has_inventory : BOOLEAN, inventory_days : 1..MaxDaysBack]

LoanDraws == [role : {"teacher", "student"}, checkout_days : 0..MaxDaysBack,
              overdue : BOOLEAN, overdue_days : 1..MaxDaysBack, renewed_count : 0..1]

\* A closed loan: the borrower, randint(0, 365) and randint(1, loan_days),
\* the latter at one of its two ends.
ClosedLoanDraws == [role : {"teacher", "student"}, checkout_days : 0..MaxDaysBack,
                    return_at_due : BOOLEAN]

SeedDraws == [items : [1..MaxClockItems -> ItemDraws], loans : [1..MaxClockLoans -> LoanDraws],
              closed : [1..MaxClockClosed -> ClosedLoanDraws]]

\* rng.choice(borrowers_bulk): a teacher or a student.
borrower_of(role) == IF role = "teacher" THEN <<"T", 2>> ELSE <<"S", 2>>

\* 28 if borrower["role"] == "teacher" else 14
loan_days_of(role) == IF role = "teacher" THEN 28 ELSE 14

\* The item row of iteration k as exported to items.csv.
item_row(k, d) ==
    LET acquired_at == minus_days(now_utc, d.acquired_days)
        last_inv == IF d.has_inventory THEN minus_days(now_utc, d.inventory_days) ELSE NoDatetime
    IN [id |-> k, status |-> "available",
        acquired_at |-> iso(acquired_at), last_inventory_at |-> iso(last_inv)]

\* An open loan row whose renewed_count is read off the clock.
open_loan_row_clocked(k, d) ==
    LET checked_out_at == minus_days(now_utc, d.checkout_days)
        due_at == plus_days(checked_out_at, 14)
    IN [id |-> <<"loan", "open", k>>, item_id |-> k, user_id |-> borrower_of(d.role),
        checked_out_at |-> iso(checked_out_at), due_at |-> iso(due_at),
        returned_at |-> pg_null, renewed_count |-> clock % 2, status |-> "open"]

\* The open loan row of iteration k as exported to loans.csv.
open_loan_row(k, d) ==
    LET checked_out_at == minus_days(now_utc, d.checkout_days)
        loan_days == loan_days_of(d.role)
        due_at == IF d.overdue THEN minus_days(now_utc, d.overdue_days)
                  ELSE plus_days(checked_out_at, loan_days)
    IN [id |-> <<"loan", "open", k>>, item_id |-> k, user_id |-> borrower_of(d.role),
        checked_out_at |-> iso(checked_out_at), due_at |-> iso(due_at),
        returned_at |-> pg_null, renewed_count |-> d.renewed_count, status |-> "open"]

\* The closed loan row of iteration i as exported to loans.csv.
closed_loan_row(i, d) ==
    LET checked_out_at == minus_days(now_utc, d.checkout_days)
        loan_days == loan_days_of(d.role)
        due_at == plus_days(checked_out_at, loan_days)
        returned_at == plus_days(checked_out_at, IF d.return_at_due THEN loan_days ELSE 1)
    IN [id |-> <<"loan", "closed", i>>, item_id |-> 1, user_id |-> borrower_of(d.role),
        checked_out_at |-> iso(checked_out_at), due_at |-> iso(due_at),
        returned_at |-> iso(returned_at), renewed_count |-> 0, status |-> "closed"]

NewRun == [pc |-> "items", items |-> <<>>, loans |-> <<>>]

InitClock ==
    /\ VocabIdle /\ GenIdle /\ LoadIdle
    /\ clock = 0
    /\ draws \in SeedDraws
    /\ runs = <<NewRun, NewRun>>

NotClock == <<vocabVars, genVars, loadVars>>

\* Wall-clock time passes between any two steps of either run.
Tick ==
    /\ clock < MaxClock
    /\ clock' = clock + 1
    /\ UNCHANGED <<runs, draws, NotClock>>

\* One iteration of the items loop of run r.
NextItem(r) ==
    /\ runs[r].pc = "items"
    /\ LET k == Len(runs[r].items) + 1
           rows == Append(runs[r].items, item_row(k, draws.items[k]))
       IN runs' = [runs EXCEPT ![r].items = rows,
                               ![r].pc = IF k = MaxClockItems THEN "loans" ELSE "items"]
    /\ UNCHANGED <<clock, draws, NotClock>>

\* One iteration of the open loans loop of run r.
NextOpenLoan(r) ==
    /\ runs[r].pc = "loans"
    /\ LET k == Len(runs[r].loans) + 1
           rows == Append(runs[r].loans, open_loan_row(k, draws.loans[k]))
       IN runs' = [runs EXCEPT ![r].loans = rows,
                               ![r].pc = IF k = MaxClockLoans THEN "closed" ELSE "loans"]
    /\ UNCHANGED <<clock, draws, NotClock>>

\* One iteration of the closed loans loop of run r.
NextClosedLoan(r) ==
    /\ runs[r].pc = "closed"
    /\ LET i == Len(runs[r].loans) - MaxClockLoans + 1
           rows == Append(runs[r].loans, closed_loan_row(i, draws.closed[i]))
       IN runs' = [runs EXCEPT ![r].loans = rows,
                               ![r].pc = IF i = MaxClockClosed THEN "done" ELSE "closed"]
    /\ UNCHANGED <<clock, draws, NotClock>>

NextClock ==
    \/ Tick
    \/ \E r \in 1..2 : NextItem(r)
    \/ \E r \in 1..2 : NextOpenLoan(r)
    \/ \E r \in 1..2 : NextClosedLoan(r)

SpecClock == InitClock /\ [][NextClock]_vars

\* C3 (as claimed): two runs with one seed and one configuration export the
\* same rows, field by field, whatever the wall clock read during each.
C3_ByteIdentical ==
    (runs[1].pc = "done" /\ runs[2].pc = "done") =>
        /\ runs[1].items = runs[2].items
        /\ runs[1].loans = runs[2].loans

\* The fields of an exported row that are not timestamps.
item_fields(row) == [id |-> row.id, status |-> row.status]

loan_fields(row) ==
    [id |-> row.id, item_id |-> row.item_id, user_id |-> row.user_id,
     renewed_count |-> row.renewed_count, status |-> row.status]

DayRange == (0 - MaxDaysBack)..(MaxClock + 28)

DayOf(text) == CHOOSE n \in DayRange : ToString(n) = text

\* C29 (as claimed): every loan row is due strictly after its checkout; a
\* closed loan was returned after its checkout and not after its due time;
\* an open loan has no return time.
C29_LoanTimes ==
    \A r \in 1..2 : \A k \in 1..Len(runs[r].loans) :
        LET row == runs[r].loans[k]
        IN /\ DayOf(row.due_at) > DayOf(row.checked_out_at)
           /\ row.status = "open" => row.returned_at = pg_null
           /\ row.status = "closed" =>
                 /\ row.returned_at # pg_null
                 /\ DayOf(row.returned_at) > DayOf(row.checked_out_at)
                 /\ DayOf(row.returned_at) <= DayOf(row.due_at)

====
